---------------------------- MODULE Spec2Model ----------------------------
(***************************************************************************)
(* A model of the neural-network engine (services/languageModel.ts) of the *)
(* Interactive Neural Network Playground: the matrix library, the four     *)
(* training steps (FFNN, RNN, GRU, LSTM) with their backward passes and    *)
(* weight updates, and the four autoregressive generators.                 *)
(*                                                                         *)
(* Numbers.  The engine computes in IEEE doubles.  Here every number is a  *)
(* fixed-point integer: the integer n stands for the real n / Scale.       *)
(* Every product and quotient is rounded to the nearest grid point, as a   *)
(* double operation rounds to the nearest double; tanh, exp and log are    *)
(* rational approximations rounded to the grid.  Token ids, cursors and    *)
(* counts are plain integers, 0-based as in the source; TLA+ sequences are *)
(* 1-based, so element i of a JavaScript array is element i+1 here.        *)
(*                                                                         *)
(* Objects.  Models live in a heap (address -> model object) so that the   *)
(* difference between updating a copy and updating the caller's object is  *)
(* visible.  Matrices are values: no code path of the engine writes into a *)
(* matrix that a model holds (every matrix operation allocates its result  *)
(* with createMatrix; the in-place writes go to fresh one-hot vectors, to  *)
(* deep copies of prob, and to the generator's fresh softmax result).      *)
(*                                                                         *)
(* Strings are sequences of one-character strings.                         *)
(***************************************************************************)
EXTENDS Integers, Sequences, FiniteSets, TLC

(***************************************************************************)
(* Fixed-point arithmetic                                                  *)
(***************************************************************************)
\* Grid resolution: the integer n stands for n / Scale.
Scale == 8

\* a / b rounded to the nearest integer (halves round up); b # 0.
RoundDiv(a, b) ==
    IF b > 0 THEN (2 * a + b) \div (2 * b)
    ELSE (2 * (0 - a) + (0 - b)) \div (2 * (0 - b))

\* x * y and x / y of two fixed-point numbers.
Mul(x, y) == RoundDiv(x * y, Scale)
Div(x, y) == RoundDiv(x * Scale, y)

Max2(a, b) == IF a >= b THEN a ELSE b
\* Faulty variant of Min2 (the window end is not capped at the corpus end); C2 fails on it.
Min2Uncapped(a, b) == IF a >= b THEN a ELSE b
Min2(a, b) == IF a <= b THEN a ELSE b

\* Math.exp: 1/(1 - x + x^2/2) for x <= 0 and 1 + x + x^2/2 for x > 0.
exp(x) ==
    IF x <= 0 THEN RoundDiv(2 * Scale * Scale * Scale, 2 * Scale * Scale - 2 * Scale * x + x * x)
    ELSE RoundDiv(Scale * (2 * Scale * Scale + 2 * Scale * x + x * x), 2 * Scale * Scale)

\* -Math.log(p + 1e-9): 2z(1 + z^2/3) with z = (1-p)/(1+p); -log(1e-9) ~ 20.7.
NegLog(p) ==
    IF p <= 0 THEN 21 * Scale
    ELSE LET z == Div(Scale - p, Scale + p)
         IN  Mul(2 * z, Scale + RoundDiv(Mul(z, z), 3))

(***************************************************************************)
(* Matrix Math Utilities                                                   *)
(***************************************************************************)
\* The outcome of an operation that threw ("Matrix dimension mismatch ...");
\* a thrown error propagates through every operation that consumes it.
MatError == [rows |-> 0 - 1, cols |-> 0 - 1, data |-> << >>]
IsErr(m) == m.rows < 0

\* What a number plus a missing array element (undefined) evaluates to.
NaN == << "NaN" >>

\* A faulty add that refuses every pair of operands of different shapes.
addStrict(a, b) ==
    IF IsErr(a) \/ IsErr(b) THEN MatError
    ELSE IF a.rows # b.rows \/ a.cols # b.cols THEN MatError
    ELSE [rows |-> a.rows, cols |-> a.cols,
          data |-> [i \in 1..a.rows |-> [j \in 1..a.cols |-> a.data[i][j] + b.data[i][j]]]]

createMatrix(rows, cols, fill) ==
    [rows |-> rows, cols |-> cols,
     data |-> [i \in 1..rows |-> [j \in 1..cols |-> fill]]]

RECURSIVE DotSum(_, _, _, _, _)
DotSum(a, b, i, j, k) ==
    IF k = 0 THEN 0
    ELSE DotSum(a, b, i, j, k - 1) + Mul(a.data[i][k], b.data[k][j])

dot(a, b) ==
    IF IsErr(a) \/ IsErr(b) THEN MatError
    ELSE IF a.cols # b.rows THEN MatError
    ELSE [rows |-> a.rows, cols |-> b.cols,
          data |-> [i \in 1..a.rows |-> [j \in 1..b.cols |-> DotSum(a, b, i, j, a.cols)]]]

add(a, b) ==
    IF IsErr(a) \/ IsErr(b) THEN MatError
    ELSE IF a.rows # b.rows \/ a.cols # b.cols
         THEN IF a.rows > 1 /\ b.rows = 1
              THEN [rows |-> a.rows, cols |-> a.cols,
                    data |-> [i \in 1..a.rows |-> [j \in 1..a.cols |->
                                IF j <= b.cols THEN a.data[i][j] + b.data[1][j]
                                ELSE NaN]]]
              ELSE a
    ELSE [rows |-> a.rows, cols |-> a.cols,
          data |-> [i \in 1..a.rows |-> [j \in 1..a.cols |-> a.data[i][j] + b.data[i][j]]]]

subtract(a, b) ==
    IF IsErr(a) \/ IsErr(b) THEN MatError
    ELSE IF a.rows # b.rows \/ a.cols # b.cols THEN MatError
    ELSE [rows |-> a.rows, cols |-> a.cols,
          data |-> [i \in 1..a.rows |-> [j \in 1..a.cols |-> a.data[i][j] - b.data[i][j]]]]

multiply(a, b) ==
    IF IsErr(a) \/ IsErr(b) THEN MatError
    ELSE IF a.rows # b.rows \/ a.cols # b.cols THEN MatError
    ELSE [rows |-> a.rows, cols |-> a.cols,
          data |-> [i \in 1..a.rows |-> [j \in 1..a.cols |-> Mul(a.data[i][j], b.data[i][j])]]]

scale(m, s) ==
    IF IsErr(m) THEN MatError
    ELSE [rows |-> m.rows, cols |-> m.cols,
          data |-> [i \in 1..m.rows |-> [j \in 1..m.cols |-> Mul(m.data[i][j], s)]]]

transpose(m) ==
    IF IsErr(m) THEN MatError
    ELSE [rows |-> m.cols, cols |-> m.rows,
          data |-> [j \in 1..m.cols |-> [i \in 1..m.rows |-> m.data[i][j]]]]

ones(rows, cols) == createMatrix(rows, cols, Scale)

(***************************************************************************)
(* Activation Functions                                                    *)
(***************************************************************************)
\* Math.tanh: the Pade approximant x(27 + x^2)/(27 + 9x^2), saturated at |x| >= 3.
tanh(x) ==
    IF x >= 3 * Scale THEN Scale
    ELSE IF x <= 0 - 3 * Scale THEN 0 - Scale
    ELSE RoundDiv(x * (27 * Scale * Scale + x * x), 27 * Scale * Scale + 9 * x * x)

dtanh(y) == Scale - Mul(y, y)

sigmoid(x) == Div(Scale, Scale + exp(0 - x))

dsigmoid(y) == Mul(y, Scale - y)

\* The functions the source passes to map, by name.
ApplyFn(fn, v) ==
    CASE fn = "tanh" -> tanh(v)
      [] fn = "dtanh" -> dtanh(v)
      [] fn = "sigmoid" -> sigmoid(v)
      [] fn = "dsigmoid" -> dsigmoid(v)

map(m, fn) ==
    IF IsErr(m) THEN MatError
    ELSE [rows |-> m.rows, cols |-> m.cols,
          data |-> [i \in 1..m.rows |-> [j \in 1..m.cols |-> ApplyFn(fn, m.data[i][j])]]]

\* Math.max(...row) and row.reduce((a, b) => a + b, 0).
RECURSIVE RowMax(_, _)
RowMax(row, n) == IF n = 1 THEN row[1] ELSE Max2(RowMax(row, n - 1), row[n])

RECURSIVE RowSum(_, _)
RowSum(row, n) == IF n = 0 THEN 0 ELSE RowSum(row, n - 1) + row[n]

softmax(m) ==
    IF IsErr(m) THEN MatError
    ELSE IF m.rows = 0 \/ m.cols = 0 THEN createMatrix(1, m.cols, 0)
    ELSE LET maxVal == RowMax(m.data[1], m.cols)
             exps == [j \in 1..m.cols |-> exp(m.data[1][j] - maxVal)]
             sumExps == RowSum(exps, m.cols)
             denom == IF sumExps = 0 THEN Scale ELSE sumExps
         IN  [rows |-> 1, cols |-> m.cols,
              data |-> << [j \in 1..m.cols |-> Div(exps[j], denom)] >>]

\* row.indexOf(Math.max(...row)): the first index (0-based) holding the maximum.
ArgMax(row) ==
    LET mx == RowMax(row, Len(row))
    IN  (CHOOSE j \in 1..Len(row) : row[j] = mx /\ \A k \in 1..(j - 1) : row[k] # mx) - 1

\* The gradient clip of every training step: map(m, v => max(-5, min(5, v))).
CLIP == 5
clip(m) ==
    IF IsErr(m) THEN MatError
    ELSE [rows |-> m.rows, cols |-> m.cols,
          data |-> [i \in 1..m.rows |-> [j \in 1..m.cols |->
                      Max2(0 - CLIP * Scale, Min2(CLIP * Scale, m.data[i][j]))]]]

\* A 1 x n one-hot row for token id idx (0-based): createMatrix then data[0][idx] = 1.
\* An id outside 0..n-1 lands outside the cols the library reads: the row stays zero.
oneHot(n, idx) ==
    [rows |-> 1, cols |-> n,
     data |-> << [j \in 1..n |-> IF j = idx + 1 THEN Scale ELSE 0] >>]

\* dy = deep copy of prob; dy.data[0][target] -= 1.
minusOneAt(prob, target) ==
    IF IsErr(prob) THEN MatError
    ELSE [prob EXCEPT !.data = << [j \in 1..prob.cols |->
              IF j = target + 1 THEN prob.data[1][j] - Scale ELSE prob.data[1][j]] >>]

(***************************************************************************)
(* Values shared by the four architectures                                 *)
(***************************************************************************)
\* What JavaScript yields for a missing array element or property.
Undefined == << "undefined" >>
NoId == 0 - 1

\* encodedText[i] and vocab[id] for 0-based i and id; undefined when out of range.
encAt(encodedText, i) ==
    IF i >= 0 /\ i < Len(encodedText) THEN encodedText[i + 1] ELSE NoId
vocabAt(vocab, id) ==
    IF id >= 0 /\ id < Len(vocab) THEN vocab[id + 1] ELSE Undefined
\* prob.data[0][id]; an undefined element makes the loss NaN, modelled as the loss of 0.
probAt(prob, id) ==
    IF id >= 0 /\ id < prob.cols THEN prob.data[1][id + 1] ELSE 0

\* Object.fromEntries(vocab.map((char, i) => [char, i])): a later duplicate wins.
tokenToIndexOf(vocab) ==
    [tok \in {vocab[i] : i \in 1..Len(vocab)} |->
        (CHOOSE i \in 1..Len(vocab) :
            vocab[i] = tok /\ \A k \in (i + 1)..Len(vocab) : vocab[k] # tok) - 1]

\* mask = null when dropoutRate is 0.
Null == [rows |-> 0, cols |-> 0, data |-> << >>]
IsNull(m) == m.rows = 0 /\ m.cols = 0

\* createMatrix(1, hiddenSize, () => (Math.random() < dropoutRate ? 0 : scaleFactor));
\* draws[j] tells whether the j-th Math.random() fell below dropoutRate.
dropoutMask(hiddenSize, dropoutRate, draws) ==
    LET scaleFactor == Div(Scale, Scale - dropoutRate)
    IN  [rows |-> 1, cols |-> hiddenSize,
         data |-> << [j \in 1..hiddenSize |-> IF draws[j] THEN 0 ELSE scaleFactor] >>]

\* Faulty variant of DeepCopy (the "copy" is the object itself); C3 fails on it.
DeepCopyAliased(heap, m) == [heap |-> heap, addr |-> m]

\* const updatedModel = JSON.parse(JSON.stringify(model)): a new object holding a copy.
DeepCopy(heap, m) == [heap |-> Append(heap, heap[m]), addr |-> Len(heap) + 1]

\* Faulty variant of lastOf (the state before the window is persisted); C4 fails on it.
lastOfStale(states) == states[1]

\* states[states.length - 1]: the state the step persists into the model.
lastOf(states) == states[Len(states)]

\* Faulty variant of startStates (every window starts from a zero state); C5 fails on it.
startStatesZero(state) == << createMatrix(state.rows, state.cols, 0) >>

\* const hiddenStates = [model.h] (cellStates = [model.c]): a window starts from the
\* state the model carries.
startStates(state) == << state >>

\* Faulty variant of predictionEntry (the pair is recorded reversed); C1 fails on it.
predictionEntryReversed(vocab, inputIndex, targetIndex, predictedIndex) ==
    [inputToken |-> vocabAt(vocab, targetIndex),
     targetToken |-> vocabAt(vocab, inputIndex),
     predictedToken |-> vocabAt(vocab, predictedIndex)]

\* predictionResults.push({inputToken, targetToken, predictedToken}).
predictionEntry(vocab, inputIndex, targetIndex, predictedIndex) ==
    [inputToken |-> vocabAt(vocab, inputIndex),
     targetToken |-> vocabAt(vocab, targetIndex),
     predictedToken |-> vocabAt(vocab, predictedIndex)]

\* dropoutRate > 0 ? multiply(h, mask) : h, and `if (mask) dh = multiply(dh, mask)`.
applyMask(h, mask) == IF IsNull(mask) THEN h ELSE multiply(h, mask)

\* Faulty variant of maskOf (the backward step applies no mask); C15 fails on it.
maskOfNone(c) == Null

\* const { ..., mask, ... } = cache[t]: the mask the backward step at t applies.
maskOf(c) == c.mask

\* Faulty variant of applyGrad (the gradient is applied unclipped); C14 fails on it.
applyGradUnclipped(param, grad, lr) == add(param, scale(grad, lr))

\* add(param, scale(clip(grad), lr)): the update of one parameter matrix.
applyGrad(param, grad, lr) == add(param, scale(clip(grad), lr))

\* loss: totalLoss / (seqEnd - step || 1).
windowLoss(totalLoss, seqEnd, step) ==
    RoundDiv(totalLoss, IF seqEnd - step = 0 THEN 1 ELSE seqEnd - step)

\* predictedIndex of the last cached time step; 0 when the cache is empty.
lastPredicted(cache) ==
    IF Len(cache) > 0 THEN ArgMax(cache[Len(cache)].prob.data[1]) ELSE 0

(***************************************************************************)
(* The values a loop body computes are built up in stages: each stage      *)
(* extends the record e of the values computed so far with the values that *)
(* depend on them, under the names the source gives them.                  *)
(***************************************************************************)

(***************************************************************************)
(* FFNN Implementation                                                     *)
(***************************************************************************)
\* --- FORWARD PASS --- of the pair at position i.
FFNNInput(model, encodedText, i) ==
    [inputIndex |-> encAt(encodedText, i),
     targetIndex |-> encAt(encodedText, i + 1),
     inputVector |-> oneHot(Len(model.vocab), encAt(encodedText, i))]

FFNNHidden(model, e) ==
    e @@ [hiddenActivated |->
            map(add(dot(e.inputVector, model.hiddenLayer.weights),
                    model.hiddenLayer.biases), "tanh")]

FFNNOutput(model, e) ==
    e @@ [outputProbs |->
            softmax(add(dot(e.hiddenActivated, model.outputLayer.weights),
                        model.outputLayer.biases))]

\* --- LOSS CALCULATION --- and dOutput = outputProbs with 1 subtracted at the target.
FFNNLoss(e) ==
    e @@ [loss |-> NegLog(probAt(e.outputProbs, e.targetIndex)),
          predictedIndex |-> ArgMax(e.outputProbs.data[1]),
          dOutput |-> minusOneAt(e.outputProbs, e.targetIndex)]

\* --- BACKWARD PASS ---: dHiddenRaw = dHiddenActivated * dtanh(hiddenActivated).
FFNNBackward(model, e) ==
    e @@ [dHiddenRaw |->
            multiply(dot(e.dOutput, transpose(model.outputLayer.weights)),
                     map(e.hiddenActivated, "dtanh"))]

FFNNPair(model, encodedText, i) ==
    FFNNBackward(model, FFNNLoss(FFNNOutput(model,
        FFNNHidden(model, FFNNInput(model, encodedText, i)))))

\* Accumulate gradients for the batch, push the prediction, keep the last pair for display.
FFNNAccumulate(model, acc, e, isLast) ==
    [hiddenGrad |->
        [weights |-> add(acc.hiddenGrad.weights, dot(transpose(e.inputVector), e.dHiddenRaw)),
         biases |-> add(acc.hiddenGrad.biases, e.dHiddenRaw)],
     outputGrad |->
        [weights |-> add(acc.outputGrad.weights, dot(transpose(e.hiddenActivated), e.dOutput)),
         biases |-> add(acc.outputGrad.biases, e.dOutput)],
     totalLoss |-> acc.totalLoss + e.loss,
     predictionResults |-> Append(acc.predictionResults,
         predictionEntry(model.vocab, e.inputIndex, e.targetIndex, e.predictedIndex)),
     lastResultForVis |->
         IF isLast
         THEN predictionEntry(model.vocab, e.inputIndex, e.targetIndex, e.predictedIndex)
         ELSE acc.lastResultForVis]

\* lastResultForVis = {}: the spread adds no field, so the result's tokens are undefined.
EmptyVis ==
    [inputToken |-> Undefined, targetToken |-> Undefined, predictedToken |-> Undefined]

\* The gradient accumulators and counters before the loop.
FFNNZero(model) ==
    [hiddenGrad |->
        [weights |-> createMatrix(Len(model.vocab), model.hiddenLayer.weights.cols, 0),
         biases |-> createMatrix(1, model.hiddenLayer.weights.cols, 0)],
     outputGrad |->
        [weights |-> createMatrix(model.hiddenLayer.weights.cols, Len(model.vocab), 0),
         biases |-> createMatrix(1, Len(model.vocab), 0)],
     totalLoss |-> 0,
     predictionResults |-> << >>,
     lastResultForVis |-> EmptyVis]

\* for (let i = step; i < batchEnd; i++).
RECURSIVE FFNNBatch(_, _, _, _, _)
FFNNBatch(model, encodedText, i, batchEnd, acc) ==
    IF i >= batchEnd THEN acc
    ELSE FFNNBatch(model, encodedText, i + 1, batchEnd,
             FFNNAccumulate(model, acc, FFNNPair(model, encodedText, i), i = batchEnd - 1))

\* --- WEIGHT UPDATE ---: the four updated matrices.
FFNNUpdated(model, acc, lr) ==
    [hW |-> applyGrad(model.hiddenLayer.weights, acc.hiddenGrad.weights, lr),
     hB |-> applyGrad(model.hiddenLayer.biases, acc.hiddenGrad.biases, lr),
     oW |-> applyGrad(model.outputLayer.weights, acc.outputGrad.weights, lr),
     oB |-> applyGrad(model.outputLayer.biases, acc.outputGrad.biases, lr)]

\* The updated matrices are written into the deep copy cp, which is returned.
FFNNWrite(heap, m, cp, n, loss, acc) ==
    LET threw == IsErr(n.hW) \/ IsErr(n.hB) \/ IsErr(n.oW) \/ IsErr(n.oB)
    IN  [heap |-> IF threw THEN heap
                  ELSE [cp.heap EXCEPT ![cp.addr].hiddenLayer.weights = n.hW,
                                       ![cp.addr].hiddenLayer.biases = n.hB,
                                       ![cp.addr].outputLayer.weights = n.oW,
                                       ![cp.addr].outputLayer.biases = n.oB],
         updatedModel |-> IF threw THEN m ELSE cp.addr,
         threw |-> threw,
         loss |-> loss,
         inputToken |-> acc.lastResultForVis.inputToken,
         targetToken |-> acc.lastResultForVis.targetToken,
         predictedToken |-> acc.lastResultForVis.predictedToken,
         predictionResults |-> acc.predictionResults,
         hiddenStates |-> << >>, cellStates |-> << >>,
         gradients |-> [hiddenLayer |-> acc.hiddenGrad, outputLayer |-> acc.outputGrad]]

\* After the loop: the early return of an empty batch, else the weight update.
FFNNFinish(heap, m, batchActualSize, learningRate, acc) ==
    IF batchActualSize = 0
    THEN [heap |-> heap, updatedModel |-> m, threw |-> FALSE, loss |-> 0,
          inputToken |-> acc.lastResultForVis.inputToken,
          targetToken |-> acc.lastResultForVis.targetToken,
          predictedToken |-> acc.lastResultForVis.predictedToken,
          predictionResults |-> << >>,
          hiddenStates |-> << >>, cellStates |-> << >>,
          gradients |-> [hiddenLayer |-> acc.hiddenGrad, outputLayer |-> acc.outputGrad]]
    ELSE FFNNWrite(heap, m, DeepCopy(heap, m),
                   FFNNUpdated(heap[m], acc, RoundDiv(0 - learningRate, batchActualSize)),
                   RoundDiv(acc.totalLoss, batchActualSize), acc)

trainStepFFNN(heap, m, encodedText, step, batchSize, learningRate) ==
    LET batchEnd == Min2(step + batchSize, Len(encodedText) - 1)
    IN  FFNNFinish(heap, m, batchEnd - step, learningRate,
                   FFNNBatch(heap[m], encodedText, step, batchEnd, FFNNZero(heap[m])))

(***************************************************************************)
(* RNN Implementation                                                      *)
(***************************************************************************)
\* --- FORWARD PASS --- at time t.
RNNInput(model, encodedText, t, h_prev) ==
    [inputVector |-> oneHot(Len(model.vocab), encAt(encodedText, t)), h_prev |-> h_prev]

RNNHidden(model, e, dropoutRate, draws) ==
    e @@ [h_next |-> map(add(add(dot(e.inputVector, model.Wxh.weights), model.Wxh.biases),
                             dot(e.h_prev, model.Whh.weights)), "tanh"),
          mask |-> IF dropoutRate > 0
                   THEN dropoutMask(model.Wxh.weights.cols, dropoutRate, draws)
                   ELSE Null]

RNNDropped(e) == e @@ [h_next_dropped |-> applyMask(e.h_next, e.mask)]

RNNOutput(model, e) ==
    e @@ [prob |-> softmax(add(dot(e.h_next_dropped, model.Why.weights), model.Why.biases))]

\* One iteration of the forward loop: the cache entry of time t.
RNNForwardStep(model, encodedText, t, h_prev, dropoutRate, draws) ==
    RNNOutput(model, RNNDropped(RNNHidden(model, RNNInput(model, encodedText, t, h_prev),
                                          dropoutRate, draws)))

\* hiddenStates.push, totalLoss +=, predictionResults.push, cache.push.
RNNPush(model, encodedText, t, st, c) ==
    [hiddenStates |-> Append(st.hiddenStates, c.h_next_dropped),
     totalLoss |-> st.totalLoss + NegLog(probAt(c.prob, encAt(encodedText, t + 1))),
     predictionResults |-> Append(st.predictionResults,
         predictionEntry(model.vocab, encAt(encodedText, t), encAt(encodedText, t + 1),
                         ArgMax(c.prob.data[1]))),
     cache |-> Append(st.cache, c)]

\* The forward loop: for (let t = step; t < seqEnd; t++).
RECURSIVE RNNForward(_, _, _, _, _, _, _, _)
RNNForward(model, encodedText, step, t, seqEnd, dropoutRate, draws, st) ==
    IF t >= seqEnd THEN st
    ELSE RNNForward(model, encodedText, step, t + 1, seqEnd, dropoutRate, draws,
             RNNPush(model, encodedText, t, st,
                 RNNForwardStep(model, encodedText, t, st.hiddenStates[Len(st.hiddenStates)],
                                dropoutRate, draws[t - step + 1])))

\* --- BACKWARD PASS --- at cache index t, cache entry c, gradients so far g.
\* let dh = dy * Why^T + dh_next_grad (dh0 is dh before `if (mask)` reassigns it).
RNNGradHidden(model, c, g, dy) ==
    [dy |-> dy, mask |-> maskOf(c),
     dh0 |-> add(dot(dy, transpose(model.Why.weights)), g.dh_next_grad)]

\* if (mask) dh = multiply(dh, mask).
RNNGradMasked(e) == e @@ [dh |-> applyMask(e.dh0, e.mask)]

\* dh_raw = dh * dtanh(h_next).
RNNGradRaw(c, e) == e @@ [dh_raw |-> multiply(e.dh, map(c.h_next, "dtanh"))]

\* dh_next_grad = dh_raw * Whh^T.
RNNGradNext(model, e) == e @@ [dh_next_grad |-> dot(e.dh_raw, transpose(model.Whh.weights))]

\* The gradients accumulated from dy and dh_raw; steps keeps the locals of every
\* backward iteration, in the order the loop runs them.
RNNAccumulate(model, c, g, e) ==
    [dWhy |-> add(g.dWhy, dot(transpose(c.h_next_dropped), e.dy)),
     dbhy |-> add(g.dbhy, e.dy),
     dbxh |-> add(g.dbxh, e.dh_raw),
     dWxh |-> add(g.dWxh, dot(transpose(c.inputVector), e.dh_raw)),
     dWhh |-> add(g.dWhh, dot(transpose(c.h_prev), e.dh_raw)),
     dh_next_grad |-> e.dh_next_grad,
     steps |-> Append(g.steps, e)]

\* One iteration of the backward loop.
RNNBackwardHidden(model, c, g, dy) ==
    RNNAccumulate(model, c, g,
        RNNGradNext(model, RNNGradRaw(c, RNNGradMasked(RNNGradHidden(model, c, g, dy)))))

\* The backward loop: for (let t = cache.length - 1; t >= 0; t--); t is 0-based.
RECURSIVE RNNBackward(_, _, _, _, _, _)
RNNBackward(model, encodedText, step, cache, t, g) ==
    IF t < 0 THEN g
    ELSE RNNBackward(model, encodedText, step, cache, t - 1,
             RNNBackwardHidden(model, cache[t + 1], g,
                 minusOneAt(cache[t + 1].prob, encAt(encodedText, step + t + 1))))

RNNZero(model) ==
    [dWxh |-> createMatrix(Len(model.vocab), model.Wxh.weights.cols, 0),
     dWhh |-> createMatrix(model.Wxh.weights.cols, model.Wxh.weights.cols, 0),
     dWhy |-> createMatrix(model.Wxh.weights.cols, Len(model.vocab), 0),
     dbxh |-> createMatrix(1, model.Wxh.weights.cols, 0),
     dbhy |-> createMatrix(1, Len(model.vocab), 0),
     dh_next_grad |-> createMatrix(1, model.Wxh.weights.cols, 0),
     steps |-> << >>]

\* --- WEIGHT UPDATE ---: the five updated matrices.
RNNUpdated(model, lr, g) ==
    [Wxh |-> applyGrad(model.Wxh.weights, g.dWxh, lr),
     Whh |-> applyGrad(model.Whh.weights, g.dWhh, lr),
     Why |-> applyGrad(model.Why.weights, g.dWhy, lr),
     bxh |-> applyGrad(model.Wxh.biases, g.dbxh, lr),
     bhy |-> applyGrad(model.Why.biases, g.dbhy, lr)]

\* The record a recurrent training step returns.
recurrentResult(heap, updatedModel, threw, model, encodedText, step, seqEnd, fw, cellStates) ==
    [heap |-> heap, updatedModel |-> updatedModel, threw |-> threw,
     loss |-> windowLoss(fw.totalLoss, seqEnd, step),
     inputToken |-> vocabAt(model.vocab, encAt(encodedText, seqEnd - 1)),
     targetToken |-> vocabAt(model.vocab, encAt(encodedText, seqEnd)),
     predictedToken |-> vocabAt(model.vocab, lastPredicted(fw.cache)),
     predictionResults |-> fw.predictionResults,
     hiddenStates |-> fw.hiddenStates, cellStates |-> cellStates]

\* The updated matrices and the last hidden state are written into the deep copy cp.
RNNWrite(heap, m, encodedText, step, seqEnd, fw, cp, n) ==
    LET threw == \E k \in DOMAIN n : IsErr(n[k])
    IN  recurrentResult(
            IF threw THEN heap
            ELSE [cp.heap EXCEPT ![cp.addr].Wxh.weights = n.Wxh,
                                 ![cp.addr].Whh.weights = n.Whh,
                                 ![cp.addr].Why.weights = n.Why,
                                 ![cp.addr].Wxh.biases = n.bxh,
                                 ![cp.addr].Why.biases = n.bhy,
                                 ![cp.addr].h = lastOf(fw.hiddenStates)],
            IF threw THEN m ELSE cp.addr, threw,
            heap[m], encodedText, step, seqEnd, fw, << >>)

\* The update from the accumulated gradients g; the result keeps the cache of the
\* forward loop and the gradients of the backward loop next to what the source returns.
RNNApply(heap, m, encodedText, step, seqEnd, learningRate, fw, g) ==
    RNNWrite(heap, m, encodedText, step, seqEnd, fw, DeepCopy(heap, m),
             RNNUpdated(heap[m], 0 - learningRate, g))
        @@ [cache |-> fw.cache, gradients |-> g]

\* After the forward loop: the backward loop, then the weight update.
RNNFinish(heap, m, encodedText, step, seqEnd, learningRate, fw) ==
    RNNApply(heap, m, encodedText, step, seqEnd, learningRate, fw,
        RNNBackward(heap[m], encodedText, step, fw.cache, Len(fw.cache) - 1,
                    RNNZero(heap[m])))

trainStepRNN(heap, m, encodedText, step, sequenceLength, learningRate, dropoutRate, draws) ==
    LET seqEnd == Min2(step + sequenceLength, Len(encodedText) - 1)
    IN  RNNFinish(heap, m, encodedText, step, seqEnd, learningRate,
            RNNForward(heap[m], encodedText, step, step, seqEnd, dropoutRate, draws,
                [hiddenStates |-> startStates(heap[m].h), totalLoss |-> 0,
                 predictionResults |-> << >>, cache |-> << >>]))

(***************************************************************************)
(* GRU Implementation                                                      *)
(***************************************************************************)
\* x*W + b + h*U, the pre-activation of a gate.
gatePre(inputVector, h, W, U) ==
    add(add(dot(inputVector, W.weights), W.biases), dot(h, U.weights))

\* --- FORWARD PASS --- at time t: update gate z_t and reset gate r_t.
GRUGates(model, encodedText, t, h_prev, dropoutRate, draws) ==
    [inputVector |-> oneHot(Len(model.vocab), encAt(encodedText, t)),
     h_prev |-> h_prev,
     z_t |-> map(gatePre(oneHot(Len(model.vocab), encAt(encodedText, t)), h_prev,
                         model.Wz, model.Uz), "sigmoid"),
     r_t |-> map(gatePre(oneHot(Len(model.vocab), encAt(encodedText, t)), h_prev,
                         model.Wr, model.Ur), "sigmoid"),
     mask |-> IF dropoutRate > 0
              THEN dropoutMask(model.Why.weights.rows, dropoutRate, draws)
              ELSE Null]

\* The candidate state h_hat_t, from the reset previous state.
GRUCandidate(model, e) ==
    e @@ [h_hat_t |-> map(gatePre(e.inputVector, multiply(e.r_t, e.h_prev),
                                  model.Wh, model.Uh), "tanh")]

\* h_t = (1 - z_t) * h_prev + z_t * h_hat_t.
GRUHidden(model, e) ==
    e @@ [h_t |-> add(multiply(subtract(ones(1, model.Why.weights.rows), e.z_t), e.h_prev),
                      multiply(e.z_t, e.h_hat_t))]

GRUDropped(e) == e @@ [h_t_dropped |-> applyMask(e.h_t, e.mask)]

GRUOutput(model, e) ==
    e @@ [prob |-> softmax(add(dot(e.h_t_dropped, model.Why.weights), model.Why.biases))]

\* One iteration of the forward loop: the cache entry of time t.
GRUForwardStep(model, encodedText, t, h_prev, dropoutRate, draws) ==
    GRUOutput(model, GRUDropped(GRUHidden(model, GRUCandidate(model,
        GRUGates(model, encodedText, t, h_prev, dropoutRate, draws)))))

GRUPush(model, encodedText, t, st, c) ==
    [hiddenStates |-> Append(st.hiddenStates, c.h_t_dropped),
     totalLoss |-> st.totalLoss + NegLog(probAt(c.prob, encAt(encodedText, t + 1))),
     predictionResults |-> Append(st.predictionResults,
         predictionEntry(model.vocab, encAt(encodedText, t), encAt(encodedText, t + 1),
                         ArgMax(c.prob.data[1]))),
     cache |-> Append(st.cache, c)]

RECURSIVE GRUForward(_, _, _, _, _, _, _, _)
GRUForward(model, encodedText, step, t, seqEnd, dropoutRate, draws, st) ==
    IF t >= seqEnd THEN st
    ELSE GRUForward(model, encodedText, step, t + 1, seqEnd, dropoutRate, draws,
             GRUPush(model, encodedText, t, st,
                 GRUForwardStep(model, encodedText, t, st.hiddenStates[Len(st.hiddenStates)],
                                dropoutRate, draws[t - step + 1])))

\* --- BACKWARD PASS --- at cache index t, cache entry c, gradients so far g.
\* dy, then dh = dy * Why^T + dh_next_grad, masked.
GRUGradHidden(model, c, g, dy) ==
    [dy |-> dy, mask |-> maskOf(c),
     dh0 |-> add(dot(dy, transpose(model.Why.weights)), g.dh_next_grad)]

\* if (mask) { dh = multiply(dh, mask); }
GRUGradMasked(e) == e @@ [dh |-> applyMask(e.dh0, e.mask)]

\* The paths of dh: to h_prev directly, to z_t, and to the candidate (dh_hat_raw).
GRUGradPaths(model, c, e) ==
    e @@ [dh_prev_from_h |-> multiply(e.dh, subtract(ones(1, model.Why.weights.rows), c.z_t)),
          dz |-> multiply(e.dh, subtract(c.h_hat_t, c.h_prev)),
          dh_hat_raw |-> multiply(multiply(e.dh, c.z_t), map(c.h_hat_t, "dtanh"))]

GRUGradGates(model, c, e) ==
    e @@ [dr_h_prev |-> dot(e.dh_hat_raw, transpose(model.Uh.weights)),
          dz_raw |-> multiply(e.dz, map(c.z_t, "dsigmoid"))]

GRUGradReset(c, e) ==
    e @@ [dr_raw |-> multiply(multiply(e.dr_h_prev, c.h_prev), map(c.r_t, "dsigmoid")),
          dh_prev_from_r |-> multiply(e.dr_h_prev, c.r_t)]

\* Faulty variant of GRUdhNext (the reset gate's path is left out); C12 fails on it.
GRUdhNextThree(model, dh_prev_from_h, dh_prev_from_r, dz_raw, dr_raw) ==
    add(add(dh_prev_from_h, dh_prev_from_r), dot(dz_raw, transpose(model.Uz.weights)))

\* The gradient handed to the earlier time step (dh_next_grad), from its four paths.
GRUdhNext(model, dh_prev_from_h, dh_prev_from_r, dz_raw, dr_raw) ==
    add(add(add(dh_prev_from_h, dh_prev_from_r),
            dot(dz_raw, transpose(model.Uz.weights))),
        dot(dr_raw, transpose(model.Ur.weights)))

\* dh_next_grad of this iteration.
GRUGradNext(model, e) ==
    e @@ [dh_next_grad |->
            GRUdhNext(model, e.dh_prev_from_h, e.dh_prev_from_r, e.dz_raw, e.dr_raw)]

GRUAccumulate(model, h_t_dropped, c, g, e) ==
    [Why |-> add(g.Why, dot(transpose(h_t_dropped), e.dy)),
     by |-> add(g.by, e.dy),
     Wh |-> add(g.Wh, dot(transpose(c.inputVector), e.dh_hat_raw)),
     bh |-> add(g.bh, e.dh_hat_raw),
     Uh |-> add(g.Uh, dot(transpose(multiply(c.r_t, c.h_prev)), e.dh_hat_raw)),
     Wr |-> add(g.Wr, dot(transpose(c.inputVector), e.dr_raw)),
     br |-> add(g.br, e.dr_raw),
     Ur |-> add(g.Ur, dot(transpose(c.h_prev), e.dr_raw)),
     Wz |-> add(g.Wz, dot(transpose(c.inputVector), e.dz_raw)),
     bz |-> add(g.bz, e.dz_raw),
     Uz |-> add(g.Uz, dot(transpose(c.h_prev), e.dz_raw)),
     dh_next_grad |-> e.dh_next_grad,
     steps |-> Append(g.steps, e)]

GRUBackwardStep(model, h_t_dropped, c, g, dy) ==
    GRUAccumulate(model, h_t_dropped, c, g,
        GRUGradNext(model, GRUGradReset(c, GRUGradGates(model, c, GRUGradPaths(model, c,
            GRUGradMasked(GRUGradHidden(model, c, g, dy)))))))

\* The backward loop; hiddenStates[t + 1] of the source is the dropped state of entry t.
RECURSIVE GRUBackward(_, _, _, _, _, _, _)
GRUBackward(model, encodedText, step, cache, hiddenStates, t, g) ==
    IF t < 0 THEN g
    ELSE GRUBackward(model, encodedText, step, cache, hiddenStates, t - 1,
             GRUBackwardStep(model, hiddenStates[t + 2], cache[t + 1], g,
                 minusOneAt(cache[t + 1].prob, encAt(encodedText, step + t + 1))))

GRUZero(model) ==
    [Wz |-> createMatrix(Len(model.vocab), model.Why.weights.rows, 0),
     Uz |-> createMatrix(model.Why.weights.rows, model.Why.weights.rows, 0),
     bz |-> createMatrix(1, model.Why.weights.rows, 0),
     Wr |-> createMatrix(Len(model.vocab), model.Why.weights.rows, 0),
     Ur |-> createMatrix(model.Why.weights.rows, model.Why.weights.rows, 0),
     br |-> createMatrix(1, model.Why.weights.rows, 0),
     Wh |-> createMatrix(Len(model.vocab), model.Why.weights.rows, 0),
     Uh |-> createMatrix(model.Why.weights.rows, model.Why.weights.rows, 0),
     bh |-> createMatrix(1, model.Why.weights.rows, 0),
     Why |-> createMatrix(model.Why.weights.rows, Len(model.vocab), 0),
     by |-> createMatrix(1, Len(model.vocab), 0),
     dh_next_grad |-> createMatrix(1, model.Why.weights.rows, 0),
     steps |-> << >>]

\* --- WEIGHT UPDATE ---
GRUUpdated(model, lr, g) ==
    [Wz |-> applyGrad(model.Wz.weights, g.Wz, lr),
     Uz |-> applyGrad(model.Uz.weights, g.Uz, lr),
     bz |-> applyGrad(model.Wz.biases, g.bz, lr),
     Wr |-> applyGrad(model.Wr.weights, g.Wr, lr),
     Ur |-> applyGrad(model.Ur.weights, g.Ur, lr),
     br |-> applyGrad(model.Wr.biases, g.br, lr),
     Wh |-> applyGrad(model.Wh.weights, g.Wh, lr),
     Uh |-> applyGrad(model.Uh.weights, g.Uh, lr),
     bh |-> applyGrad(model.Wh.biases, g.bh, lr),
     Why |-> applyGrad(model.Why.weights, g.Why, lr),
     by |-> applyGrad(model.Why.biases, g.by, lr)]

GRUWrite(heap, m, encodedText, step, seqEnd, fw, cp, n) ==
    LET threw == \E k \in DOMAIN n : IsErr(n[k])
    IN  recurrentResult(
            IF threw THEN heap
            ELSE [cp.heap EXCEPT ![cp.addr].Wz.weights = n.Wz, ![cp.addr].Uz.weights = n.Uz,
                                 ![cp.addr].Wz.biases = n.bz,
                                 ![cp.addr].Wr.weights = n.Wr, ![cp.addr].Ur.weights = n.Ur,
                                 ![cp.addr].Wr.biases = n.br,
                                 ![cp.addr].Wh.weights = n.Wh, ![cp.addr].Uh.weights = n.Uh,
                                 ![cp.addr].Wh.biases = n.bh,
                                 ![cp.addr].Why.weights = n.Why, ![cp.addr].Why.biases = n.by,
                                 ![cp.addr].h = lastOf(fw.hiddenStates)],
            IF threw THEN m ELSE cp.addr, threw,
            heap[m], encodedText, step, seqEnd, fw, << >>)

GRUApply(heap, m, encodedText, step, seqEnd, learningRate, fw, g) ==
    GRUWrite(heap, m, encodedText, step, seqEnd, fw, DeepCopy(heap, m),
             GRUUpdated(heap[m], 0 - learningRate, g))
        @@ [cache |-> fw.cache, gradients |-> g]

GRUFinish(heap, m, encodedText, step, seqEnd, learningRate, fw) ==
    GRUApply(heap, m, encodedText, step, seqEnd, learningRate, fw,
        GRUBackward(heap[m], encodedText, step, fw.cache, fw.hiddenStates,
                    Len(fw.cache) - 1, GRUZero(heap[m])))

trainStepGRU(heap, m, encodedText, step, sequenceLength, learningRate, dropoutRate, draws) ==
    LET seqEnd == Min2(step + sequenceLength, Len(encodedText) - 1)
    IN  GRUFinish(heap, m, encodedText, step, seqEnd, learningRate,
            GRUForward(heap[m], encodedText, step, step, seqEnd, dropoutRate, draws,
                [hiddenStates |-> startStates(heap[m].h), totalLoss |-> 0,
                 predictionResults |-> << >>, cache |-> << >>]))

(***************************************************************************)
(* LSTM Implementation                                                     *)
(***************************************************************************)
\* --- FORWARD PASS --- at time t: forget, input and output gates, candidate cell.
LSTMGates(model, encodedText, t, h_prev, c_prev, dropoutRate, draws) ==
    [inputVector |-> oneHot(Len(model.vocab), encAt(encodedText, t)),
     h_prev |-> h_prev, c_prev |-> c_prev,
     f_t |-> map(gatePre(oneHot(Len(model.vocab), encAt(encodedText, t)), h_prev,
                         model.Wf, model.Uf), "sigmoid"),
     i_t |-> map(gatePre(oneHot(Len(model.vocab), encAt(encodedText, t)), h_prev,
                         model.Wi, model.Ui), "sigmoid"),
     o_t |-> map(gatePre(oneHot(Len(model.vocab), encAt(encodedText, t)), h_prev,
                         model.Wo, model.Uo), "sigmoid"),
     c_hat_t |-> map(gatePre(oneHot(Len(model.vocab), encAt(encodedText, t)), h_prev,
                             model.Wc, model.Uc), "tanh"),
     mask |-> IF dropoutRate > 0
              THEN dropoutMask(model.Why.weights.rows, dropoutRate, draws)
              ELSE Null]

\* c_t = f_t * c_prev + i_t * c_hat_t.
LSTMCell(e) ==
    e @@ [c_t |-> add(multiply(e.f_t, e.c_prev), multiply(e.i_t, e.c_hat_t))]

\* h_t = o_t * tanh(c_t).
LSTMHidden(e) == e @@ [h_t |-> multiply(e.o_t, map(e.c_t, "tanh"))]

LSTMDropped(e) == e @@ [h_t_dropped |-> applyMask(e.h_t, e.mask)]

LSTMOutput(model, e) ==
    e @@ [prob |-> softmax(add(dot(e.h_t_dropped, model.Why.weights), model.Why.biases))]

\* One iteration of the forward loop: the cache entry of time t.
LSTMForwardStep(model, encodedText, t, h_prev, c_prev, dropoutRate, draws) ==
    LSTMOutput(model, LSTMDropped(LSTMHidden(LSTMCell(
        LSTMGates(model, encodedText, t, h_prev, c_prev, dropoutRate, draws)))))

LSTMPush(model, encodedText, t, st, c) ==
    [hiddenStates |-> Append(st.hiddenStates, c.h_t_dropped),
     cellStates |-> Append(st.cellStates, c.c_t),
     totalLoss |-> st.totalLoss + NegLog(probAt(c.prob, encAt(encodedText, t + 1))),
     predictionResults |-> Append(st.predictionResults,
         predictionEntry(model.vocab, encAt(encodedText, t), encAt(encodedText, t + 1),
                         ArgMax(c.prob.data[1]))),
     cache |-> Append(st.cache, c)]

RECURSIVE LSTMForward(_, _, _, _, _, _, _, _)
LSTMForward(model, encodedText, step, t, seqEnd, dropoutRate, draws, st) ==
    IF t >= seqEnd THEN st
    ELSE LSTMForward(model, encodedText, step, t + 1, seqEnd, dropoutRate, draws,
             LSTMPush(model, encodedText, t, st,
                 LSTMForwardStep(model, encodedText, t,
                                 st.hiddenStates[Len(st.hiddenStates)],
                                 st.cellStates[Len(st.cellStates)],
                                 dropoutRate, draws[t - step + 1])))

\* --- BACKWARD PASS --- at cache index t, cache entry c, gradients so far g.
\* dy, then dh = dy * Why^T + dh_next_grad, masked.
LSTMGradHidden(model, c, g, dy) ==
    [dy |-> dy, mask |-> maskOf(c),
     dh0 |-> add(dot(dy, transpose(model.Why.weights)), g.dh_next_grad)]

\* if (mask) { dh = multiply(dh, mask); }
LSTMGradMasked(e) == e @@ [dh |-> applyMask(e.dh0, e.mask)]

\* do_raw = dh * tanh(c_t); dc_t = dc_next_grad + dh * o_t * dtanh(tanh(c_t)).
LSTMGradCell(c, g, e) ==
    e @@ [do_raw |-> multiply(e.dh, map(c.c_t, "tanh")),
          dc_t |-> add(g.dc_next_grad,
                       multiply(e.dh, multiply(c.o_t, map(map(c.c_t, "tanh"), "dtanh"))))]

\* The gradients at the four pre-activations.
LSTMGradGates(c, e) ==
    e @@ [do_t |-> multiply(e.do_raw, map(c.o_t, "dsigmoid")),
          dc_hat_raw |-> multiply(multiply(e.dc_t, c.i_t), map(c.c_hat_t, "dtanh")),
          di_raw |-> multiply(multiply(e.dc_t, c.c_hat_t), map(c.i_t, "dsigmoid")),
          df_raw |-> multiply(multiply(e.dc_t, c.c_prev), map(c.f_t, "dsigmoid"))]

\* The gradient handed to the earlier time step (dh_next_grad), from the four gates.
LSTMdhNext(model, df_raw, di_raw, do_raw, do_t, dc_hat_raw) ==
    add(add(add(dot(df_raw, transpose(model.Uf.weights)),
                dot(di_raw, transpose(model.Ui.weights))),
            dot(do_raw, transpose(model.Uo.weights))),
        dot(dc_hat_raw, transpose(model.Uc.weights)))

\* dh_next_grad of this iteration.
LSTMGradNext(model, e) ==
    e @@ [dh_next_grad |->
            LSTMdhNext(model, e.df_raw, e.di_raw, e.do_raw, e.do_t, e.dc_hat_raw)]

LSTMAccumulate(model, h_t_dropped, c, g, e) ==
    [Why |-> add(g.Why, dot(transpose(h_t_dropped), e.dy)),
     by |-> add(g.by, e.dy),
     Wo |-> add(g.Wo, dot(transpose(c.inputVector), e.do_t)),
     Uo |-> add(g.Uo, dot(transpose(c.h_prev), e.do_t)),
     bo |-> add(g.bo, e.do_t),
     Wc |-> add(g.Wc, dot(transpose(c.inputVector), e.dc_hat_raw)),
     Uc |-> add(g.Uc, dot(transpose(c.h_prev), e.dc_hat_raw)),
     bc |-> add(g.bc, e.dc_hat_raw),
     Wi |-> add(g.Wi, dot(transpose(c.inputVector), e.di_raw)),
     Ui |-> add(g.Ui, dot(transpose(c.h_prev), e.di_raw)),
     bi |-> add(g.bi, e.di_raw),
     Wf |-> add(g.Wf, dot(transpose(c.inputVector), e.df_raw)),
     Uf |-> add(g.Uf, dot(transpose(c.h_prev), e.df_raw)),
     bf |-> add(g.bf, e.df_raw),
     dc_next_grad |-> multiply(e.dc_t, c.f_t),
     dh_next_grad |-> e.dh_next_grad,
     steps |-> Append(g.steps, e)]

LSTMBackwardStep(model, h_t_dropped, c, g, dy) ==
    LSTMAccumulate(model, h_t_dropped, c, g,
        LSTMGradNext(model, LSTMGradGates(c, LSTMGradCell(c, g,
            LSTMGradMasked(LSTMGradHidden(model, c, g, dy))))))

\* The backward loop; hiddenStates[t + 1] of the source is the dropped state of entry t.
RECURSIVE LSTMBackward(_, _, _, _, _, _, _)
LSTMBackward(model, encodedText, step, cache, hiddenStates, t, g) ==
    IF t < 0 THEN g
    ELSE LSTMBackward(model, encodedText, step, cache, hiddenStates, t - 1,
             LSTMBackwardStep(model, hiddenStates[t + 2], cache[t + 1], g,
                 minusOneAt(cache[t + 1].prob, encAt(encodedText, step + t + 1))))

LSTMZero(model) ==
    [Wf |-> createMatrix(Len(model.vocab), model.Why.weights.rows, 0),
     Uf |-> createMatrix(model.Why.weights.rows, model.Why.weights.rows, 0),
     bf |-> createMatrix(1, model.Why.weights.rows, 0),
     Wi |-> createMatrix(Len(model.vocab), model.Why.weights.rows, 0),
     Ui |-> createMatrix(model.Why.weights.rows, model.Why.weights.rows, 0),
     bi |-> createMatrix(1, model.Why.weights.rows, 0),
     Wo |-> createMatrix(Len(model.vocab), model.Why.weights.rows, 0),
     Uo |-> createMatrix(model.Why.weights.rows, model.Why.weights.rows, 0),
     bo |-> createMatrix(1, model.Why.weights.rows, 0),
     Wc |-> createMatrix(Len(model.vocab), model.Why.weights.rows, 0),
     Uc |-> createMatrix(model.Why.weights.rows, model.Why.weights.rows, 0),
     bc |-> createMatrix(1, model.Why.weights.rows, 0),
     Why |-> createMatrix(model.Why.weights.rows, Len(model.vocab), 0),
     by |-> createMatrix(1, Len(model.vocab), 0),
     dh_next_grad |-> createMatrix(1, model.Why.weights.rows, 0),
     dc_next_grad |-> createMatrix(1, model.Why.weights.rows, 0),
     steps |-> << >>]

\* --- WEIGHT UPDATE ---
LSTMUpdated(model, lr, g) ==
    [Wf |-> applyGrad(model.Wf.weights, g.Wf, lr),
     Uf |-> applyGrad(model.Uf.weights, g.Uf, lr),
     bf |-> applyGrad(model.Wf.biases, g.bf, lr),
     Wi |-> applyGrad(model.Wi.weights, g.Wi, lr),
     Ui |-> applyGrad(model.Ui.weights, g.Ui, lr),
     bi |-> applyGrad(model.Wi.biases, g.bi, lr),
     Wo |-> applyGrad(model.Wo.weights, g.Wo, lr),
     Uo |-> applyGrad(model.Uo.weights, g.Uo, lr),
     bo |-> applyGrad(model.Wo.biases, g.bo, lr),
     Wc |-> applyGrad(model.Wc.weights, g.Wc, lr),
     Uc |-> applyGrad(model.Uc.weights, g.Uc, lr),
     bc |-> applyGrad(model.Wc.biases, g.bc, lr),
     Why |-> applyGrad(model.Why.weights, g.Why, lr),
     by |-> applyGrad(model.Why.biases, g.by, lr)]

LSTMWrite(heap, m, encodedText, step, seqEnd, fw, cp, n) ==
    LET threw == \E k \in DOMAIN n : IsErr(n[k])
    IN  recurrentResult(
            IF threw THEN heap
            ELSE [cp.heap EXCEPT ![cp.addr].Wf.weights = n.Wf, ![cp.addr].Uf.weights = n.Uf,
                                 ![cp.addr].Wf.biases = n.bf,
                                 ![cp.addr].Wi.weights = n.Wi, ![cp.addr].Ui.weights = n.Ui,
                                 ![cp.addr].Wi.biases = n.bi,
                                 ![cp.addr].Wo.weights = n.Wo, ![cp.addr].Uo.weights = n.Uo,
                                 ![cp.addr].Wo.biases = n.bo,
                                 ![cp.addr].Wc.weights = n.Wc, ![cp.addr].Uc.weights = n.Uc,
                                 ![cp.addr].Wc.biases = n.bc,
                                 ![cp.addr].Why.weights = n.Why, ![cp.addr].Why.biases = n.by,
                                 ![cp.addr].h = lastOf(fw.hiddenStates),
                                 ![cp.addr].c = lastOf(fw.cellStates)],
            IF threw THEN m ELSE cp.addr, threw,
            heap[m], encodedText, step, seqEnd, fw, fw.cellStates)

LSTMApply(heap, m, encodedText, step, seqEnd, learningRate, fw, g) ==
    LSTMWrite(heap, m, encodedText, step, seqEnd, fw, DeepCopy(heap, m),
              LSTMUpdated(heap[m], 0 - learningRate, g))
        @@ [cache |-> fw.cache, gradients |-> g]

LSTMFinish(heap, m, encodedText, step, seqEnd, learningRate, fw) ==
    LSTMApply(heap, m, encodedText, step, seqEnd, learningRate, fw,
        LSTMBackward(heap[m], encodedText, step, fw.cache, fw.hiddenStates,
                     Len(fw.cache) - 1, LSTMZero(heap[m])))

trainStepLSTM(heap, m, encodedText, step, sequenceLength, learningRate, dropoutRate, draws) ==
    LET seqEnd == Min2(step + sequenceLength, Len(encodedText) - 1)
    IN  LSTMFinish(heap, m, encodedText, step, seqEnd, learningRate,
            LSTMForward(heap[m], encodedText, step, step, seqEnd, dropoutRate, draws,
                [hiddenStates |-> startStates(heap[m].h),
                 cellStates |-> startStates(heap[m].c),
                 totalLoss |-> 0, predictionResults |-> << >>, cache |-> << >>]))

(***************************************************************************)
(* The models the engine is handed                                         *)
(*                                                                         *)
(* The training steps and generators are exported functions: the           *)
(* Playground hands them the model it holds, which is an initializer's     *)
(* output after earlier training or a model read back from a saved file    *)
(* (handleLoadModel).  The initializers below build the source's layout    *)
(* (random weights, zero biases, zero carried state); loadedModel then     *)
(* gives the biases and the carried state drawn values too, as training    *)
(* leaves them.  The weights are drawn from [-WeightMax, WeightMax], the   *)
(* range trained weights reach: (Math.random() - 0.5) * 0.1 itself lies    *)
(* below the grid resolution.                                              *)
(***************************************************************************)
\* Largest magnitude of a drawn parameter.
WeightMax == Scale - 2

\* The (i, j) element of the matrix drawn for `salt` under `seed`.
drawn(seed, salt, i, j) ==
    ((seed * 5 + salt * 7 + i * 3 + j * 11) % (2 * WeightMax + 1)) - WeightMax

drawnMatrix(rows, cols, seed, salt) ==
    [rows |-> rows, cols |-> cols,
     data |-> [i \in 1..rows |-> [j \in 1..cols |-> drawn(seed, salt, i, j)]]]

\* A faulty createLayer whose weights are outputSize x inputSize.
createLayerSwapped(inputSize, outputSize, seed, salt) ==
    [weights |-> drawnMatrix(outputSize, inputSize, seed, salt),
     biases |-> createMatrix(1, outputSize, 0)]

\* createLayer(inputSize, outputSize): weights inputSize x outputSize, biases 1 x outputSize.
createLayer(inputSize, outputSize, seed, salt) ==
    [weights |-> drawnMatrix(inputSize, outputSize, seed, salt),
     biases |-> createMatrix(1, outputSize, 0)]

initializeFFNNModel(vocab, hiddenSize, seed) ==
    [type |-> "FFNN", vocab |-> vocab, tokenToIndex |-> tokenToIndexOf(vocab),
     hiddenLayer |-> createLayer(Len(vocab), hiddenSize, seed, 1),
     outputLayer |-> createLayer(hiddenSize, Len(vocab), seed, 3)]

initializeRNNModel(vocab, hiddenSize, seed) ==
    [type |-> "RNN", vocab |-> vocab, tokenToIndex |-> tokenToIndexOf(vocab),
     Wxh |-> createLayer(Len(vocab), hiddenSize, seed, 1),
     Whh |-> createLayer(hiddenSize, hiddenSize, seed, 3),
     Why |-> createLayer(hiddenSize, Len(vocab), seed, 5),
     h |-> createMatrix(1, hiddenSize, 0)]

initializeGRUModel(vocab, hiddenSize, seed) ==
    [type |-> "GRU", vocab |-> vocab, tokenToIndex |-> tokenToIndexOf(vocab),
     Wz |-> createLayer(Len(vocab), hiddenSize, seed, 1),
     Uz |-> createLayer(hiddenSize, hiddenSize, seed, 3),
     Wr |-> createLayer(Len(vocab), hiddenSize, seed, 5),
     Ur |-> createLayer(hiddenSize, hiddenSize, seed, 7),
     Wh |-> createLayer(Len(vocab), hiddenSize, seed, 9),
     Uh |-> createLayer(hiddenSize, hiddenSize, seed, 11),
     Why |-> createLayer(hiddenSize, Len(vocab), seed, 13),
     h |-> createMatrix(1, hiddenSize, 0)]

initializeLSTMModel(vocab, hiddenSize, seed) ==
    [type |-> "LSTM", vocab |-> vocab, tokenToIndex |-> tokenToIndexOf(vocab),
     Wf |-> createLayer(Len(vocab), hiddenSize, seed, 1),
     Uf |-> createLayer(hiddenSize, hiddenSize, seed, 3),
     Wi |-> createLayer(Len(vocab), hiddenSize, seed, 5),
     Ui |-> createLayer(hiddenSize, hiddenSize, seed, 7),
     Wo |-> createLayer(Len(vocab), hiddenSize, seed, 9),
     Uo |-> createLayer(hiddenSize, hiddenSize, seed, 11),
     Wc |-> createLayer(Len(vocab), hiddenSize, seed, 13),
     Uc |-> createLayer(hiddenSize, hiddenSize, seed, 15),
     Why |-> createLayer(hiddenSize, Len(vocab), seed, 17),
     h |-> createMatrix(1, hiddenSize, 0),
     c |-> createMatrix(1, hiddenSize, 0)]

ModelTypes == {"FFNN", "RNN", "GRU", "LSTM"}
Recurrent == {"RNN", "GRU", "LSTM"}

initializeModel(type, vocab, hiddenSize, seed) ==
    CASE type = "FFNN" -> initializeFFNNModel(vocab, hiddenSize, seed)
      [] type = "RNN" -> initializeRNNModel(vocab, hiddenSize, seed)
      [] type = "GRU" -> initializeGRUModel(vocab, hiddenSize, seed)
      [] type = "LSTM" -> initializeLSTMModel(vocab, hiddenSize, seed)

\* A 1 x cols row of drawn values.
drawnRow(cols, seed, salt) == drawnMatrix(1, cols, seed, salt)

\* A model as the Playground holds it after training or loading: the initializer's
\* layout with drawn biases and carried state.
loadedModel(type, vocab, hiddenSize, seed) ==
    LET m == initializeModel(type, vocab, hiddenSize, seed)
        V == Len(vocab)
        H == hiddenSize
    IN  CASE type = "FFNN" ->
               [m EXCEPT !.hiddenLayer.biases = drawnRow(H, seed, 2),
                         !.outputLayer.biases = drawnRow(V, seed, 4)]
          [] type = "RNN" ->
               [m EXCEPT !.Wxh.biases = drawnRow(H, seed, 2),
                         !.Why.biases = drawnRow(V, seed, 4),
                         !.h = drawnRow(H, seed, 6)]
          [] type = "GRU" ->
               [m EXCEPT !.Wz.biases = drawnRow(H, seed, 2),
                         !.Wr.biases = drawnRow(H, seed, 4),
                         !.Wh.biases = drawnRow(H, seed, 6),
                         !.Why.biases = drawnRow(V, seed, 8),
                         !.h = drawnRow(H, seed, 10)]
          [] type = "LSTM" ->
               [m EXCEPT !.Wf.biases = drawnRow(H, seed, 2),
                         !.Wi.biases = drawnRow(H, seed, 4),
                         !.Wo.biases = drawnRow(H, seed, 6),
                         !.Wc.biases = drawnRow(H, seed, 8),
                         !.Why.biases = drawnRow(V, seed, 10),
                         !.h = drawnRow(H, seed, 12),
                         !.c = drawnRow(H, seed, 14)]

\* The switch on modelType of Playground.runTrainingStep.
trainStep(heap, m, encodedText, step, batchSize, learningRate, dropoutRate, draws) ==
    CASE heap[m].type = "FFNN" ->
           trainStepFFNN(heap, m, encodedText, step, batchSize, learningRate)
      [] heap[m].type = "RNN" ->
           trainStepRNN(heap, m, encodedText, step, batchSize, learningRate, dropoutRate, draws)
      [] heap[m].type = "GRU" ->
           trainStepGRU(heap, m, encodedText, step, batchSize, learningRate, dropoutRate, draws)
      [] heap[m].type = "LSTM" ->
           trainStepLSTM(heap, m, encodedText, step, batchSize, learningRate, dropoutRate, draws)

(***************************************************************************)
(* Generators                                                              *)
(*                                                                         *)
(* The four generate functions share their loop: look the input up, run    *)
(* one forward step, divide the logits by the temperature, softmax,        *)
(* suppress the separator during the first MIN_WORD_LENGTH steps, sample.  *)
(* One iteration of the loop is one step of the model; Math.random() is    *)
(* the input rand, a grid point of [0, 1).                                 *)
(***************************************************************************)
MIN_WORD_LENGTH == 2

\* The separator token ' '.
Space == << " " >>

\* Faulty variant of isSeparator (the loop never stops on a separator); C6 fails on it.
isSeparatorNever(nextChar) == FALSE

\* nextChar === ' ', the test that ends the generation loop.
isSeparator(nextChar) == nextChar = Space

\* Faulty variant of lookup (an unknown token is taken for token 0); C7 fails on it.
lookupDefaulting(tokenToIndex, token) ==
    IF token \in DOMAIN tokenToIndex THEN tokenToIndex[token] ELSE 0

\* model.tokenToIndex[token]; NoId stands for undefined.
lookup(tokenToIndex, token) ==
    IF token \in DOMAIN tokenToIndex THEN tokenToIndex[token] ELSE NoId

\* currentInput[currentInput.length - 1]: the last character, undefined for ''.
lastCharOf(currentInput) ==
    IF Len(currentInput) = 0 THEN Undefined ELSE << currentInput[Len(currentInput)] >>

\* The key generateFFNN looks up (the last character of currentInput) and the key the
\* recurrent generators look up (inputChar).
inputKey(type, input) == IF type = "FFNN" THEN lastCharOf(input) ELSE input

\* Faulty variant of generatorState (generation starts from a zero state); C10 fails on it.
generatorStateZero(model) ==
    [h |-> IF model.type \in Recurrent THEN createMatrix(1, model.h.cols, 0) ELSE Null,
     c |-> IF model.type = "LSTM" THEN createMatrix(1, model.c.cols, 0) ELSE Null]

\* let current_h = model.h (h_prev = model.h; c_prev = model.c): the generator's initial state.
generatorState(model) ==
    [h |-> IF model.type \in Recurrent THEN model.h ELSE Null,
     c |-> IF model.type = "LSTM" THEN model.c ELSE Null]

\* The forward step of generateFFNN.
generateFFNNForward(model, inputIndex, st) ==
    [h |-> st.h, c |-> st.c,
     outputRaw |->
        add(dot(map(add(dot(oneHot(Len(model.vocab), inputIndex), model.hiddenLayer.weights),
                        model.hiddenLayer.biases), "tanh"),
                model.outputLayer.weights),
            model.outputLayer.biases)]

\* outputRaw = h * Why + bhy, with the state (h, c) the step hands on.
generatorOutput(model, h, c) ==
    [h |-> h, c |-> c, outputRaw |-> add(dot(h, model.Why.weights), model.Why.biases)]

\* The forward step of generateRNN: current_h = tanh(x*Wxh + bxh + current_h*Whh).
generateRNNForward(model, inputIndex, st) ==
    generatorOutput(model,
        map(add(add(dot(oneHot(Len(model.vocab), inputIndex), model.Wxh.weights),
                    model.Wxh.biases),
                dot(st.h, model.Whh.weights)), "tanh"),
        st.c)

\* The forward step of generateGRU: z_t and r_t, then h_hat_t, then h_t.
generateGRUGates(model, inputVector, h_prev) ==
    [inputVector |-> inputVector, h_prev |-> h_prev,
     z_t |-> map(gatePre(inputVector, h_prev, model.Wz, model.Uz), "sigmoid"),
     r_t |-> map(gatePre(inputVector, h_prev, model.Wr, model.Ur), "sigmoid")]

generateGRUCandidate(model, e) ==
    e @@ [h_hat_t |-> map(gatePre(e.inputVector, multiply(e.r_t, e.h_prev),
                                  model.Wh, model.Uh), "tanh")]

generateGRUHidden(e) ==
    add(multiply(subtract(ones(1, e.h_prev.cols), e.z_t), e.h_prev),
        multiply(e.z_t, e.h_hat_t))

generateGRUForward(model, inputIndex, st) ==
    generatorOutput(model,
        generateGRUHidden(generateGRUCandidate(model,
            generateGRUGates(model, oneHot(Len(model.vocab), inputIndex), st.h))),
        st.c)

\* The forward step of generateLSTM: the four gates, then c_t, then h_t = o_t * tanh(c_t).
generateLSTMGates(model, inputVector, h_prev, c_prev) ==
    [c_prev |-> c_prev,
     f_t |-> map(gatePre(inputVector, h_prev, model.Wf, model.Uf), "sigmoid"),
     i_t |-> map(gatePre(inputVector, h_prev, model.Wi, model.Ui), "sigmoid"),
     o_t |-> map(gatePre(inputVector, h_prev, model.Wo, model.Uo), "sigmoid"),
     c_hat_t |-> map(gatePre(inputVector, h_prev, model.Wc, model.Uc), "tanh")]

generateLSTMCell(e) ==
    e @@ [c_t |-> add(multiply(e.f_t, e.c_prev), multiply(e.i_t, e.c_hat_t))]

generateLSTMOutput(model, e) ==
    generatorOutput(model, multiply(e.o_t, map(e.c_t, "tanh")), e.c_t)

generateLSTMForward(model, inputIndex, st) ==
    generateLSTMOutput(model, generateLSTMCell(
        generateLSTMGates(model, oneHot(Len(model.vocab), inputIndex), st.h, st.c)))

generatorForward(model, inputIndex, st) ==
    CASE model.type = "FFNN" -> generateFFNNForward(model, inputIndex, st)
      [] model.type = "RNN" -> generateRNNForward(model, inputIndex, st)
      [] model.type = "GRU" -> generateGRUForward(model, inputIndex, st)
      [] model.type = "LSTM" -> generateLSTMForward(model, inputIndex, st)

\* map(outputRaw, val => val / temperature).
applyTemperature(m, temperature) ==
    IF IsErr(m) THEN MatError
    ELSE [rows |-> m.rows, cols |-> m.cols,
          data |-> [i \in 1..m.rows |-> [j \in 1..m.cols |-> Div(m.data[i][j], temperature)]]]

\* The condition under which step i zeroes the separator's probability.
suppresses(model, outputProbs, i) ==
    LET spaceIndex == lookup(model.tokenToIndex, Space)
        spaceProb == probAt(outputProbs, spaceIndex)
    IN  /\ i < MIN_WORD_LENGTH
        /\ spaceIndex # NoId
        /\ outputProbs.cols > spaceIndex
        /\ spaceProb > 0
        /\ spaceProb < Scale

\* The heuristic: outputProbs[spaceIndex] = 0 and the others divided by 1 - spaceProb.
suppressSpace(model, outputProbs, i) ==
    IF suppresses(model, outputProbs, i)
    THEN LET spaceIndex == lookup(model.tokenToIndex, Space)
             remainingProbSum == Scale - probAt(outputProbs, spaceIndex)
         IN  [outputProbs EXCEPT !.data =
                 << [k \in 1..outputProbs.cols |->
                       IF k = spaceIndex + 1 THEN 0
                       ELSE Div(outputProbs.data[1][k], remainingProbSum)] >>]
    ELSE outputProbs

\* The sampling loop from index j on: the first j with rand < cumulativeProb, else nextIndex.
RECURSIVE sampleFrom(_, _, _, _, _)
sampleFrom(row, rand, j, cumulativeProb, nextIndex) ==
    IF j >= Len(row) THEN nextIndex
    ELSE LET cumulative == cumulativeProb + row[j + 1]
         IN  IF rand < cumulative THEN j
             ELSE sampleFrom(row, rand, j + 1, cumulative, nextIndex)

\* let nextIndex = model.vocab.length - 1, overwritten by the sampling loop.
sample(model, outputProbs, rand) ==
    sampleFrom(outputProbs.data[1], rand, 0, 0, Len(model.vocab) - 1)

\* The model holds no generation in progress.
GenIdle == [pc |-> "idle"]

\* The state of a generate call on entry to its loop: result = '', the input is the
\* seed, the recurrent state is the model's.  trace and tokens record, per iteration,
\* what the iteration looked up, consumed and sampled, and what it appended.
generatorEnter(heap, m, seed, length, temperature) ==
    LET st == generatorState(heap[m])
    IN  [pc |-> IF 0 < length THEN "loop" ELSE "returned",
         type |-> heap[m].type, model |-> m, before |-> heap,
         seed |-> seed, length |-> length, temperature |-> temperature,
         i |-> 0, result |-> << >>, input |-> seed, h |-> st.h, c |-> st.c,
         trace |-> << >>, tokens |-> << >>,
         returned |-> IF 0 < length THEN Undefined ELSE seed]

\* What one iteration records in gen.trace: the key it looked up, the state its forward
\* step consumed, whether it zeroed the separator, and the index it sampled.
traceEntry(g, key, suppressed, nextIndex) ==
    [i |-> g.i, key |-> key, h_prev |-> g.h, c_prev |-> g.c,
     suppressed |-> suppressed, nextIndex |-> nextIndex]

\* `if (inputIndex === undefined) break`, then `return seed + result`.
generatorBreak(g) ==
    [g EXCEPT !.pc = "returned", !.returned = g.seed \o g.result,
              !.trace = Append(@, traceEntry(g, inputKey(g.type, g.input), FALSE, NoId))]

\* The forward step, the temperature and the softmax of an iteration.
generatorProbs(model, g, inputIndex) ==
    [fwd |-> generatorForward(model, inputIndex, [h |-> g.h, c |-> g.c])]

generatorSoftmax(g, e) ==
    e @@ [softmaxed |-> softmax(applyTemperature(e.fwd.outputRaw, g.temperature))]

\* The separator heuristic and the sampling of nextIndex.
generatorSample(model, g, e, rand) ==
    e @@ [suppressed |-> suppresses(model, e.softmaxed, g.i),
          nextIndex |-> sample(model, suppressSpace(model, e.softmaxed, g.i), rand)]

\* `if (nextChar === ' ') break`, else result += nextChar, the sampled token becomes the
\* input and the new state is carried; `return seed + result` when the loop ends.
generatorAdvance(model, g, e) ==
    IF isSeparator(vocabAt(model.vocab, e.nextIndex))
    THEN [g EXCEPT !.pc = "returned", !.returned = g.seed \o g.result,
                   !.trace = Append(@, traceEntry(g, inputKey(g.type, g.input),
                                                  e.suppressed, e.nextIndex))]
    ELSE [g EXCEPT !.i = g.i + 1,
                   !.result = g.result \o vocabAt(model.vocab, e.nextIndex),
                   !.input = IF g.type = "FFNN"
                             THEN g.input \o vocabAt(model.vocab, e.nextIndex)
                             ELSE vocabAt(model.vocab, e.nextIndex),
                   !.h = e.fwd.h, !.c = e.fwd.c,
                   !.tokens = Append(@, vocabAt(model.vocab, e.nextIndex)),
                   !.trace = Append(@, traceEntry(g, inputKey(g.type, g.input),
                                                  e.suppressed, e.nextIndex)),
                   !.pc = IF g.i + 1 < g.length THEN "loop" ELSE "returned",
                   !.returned = IF g.i + 1 < g.length THEN Undefined
                                ELSE g.seed \o g.result \o vocabAt(model.vocab, e.nextIndex)]

\* One iteration of the generator's for loop, up to the loop test that follows it.
generatorIterate(model, g, rand) ==
    IF lookup(model.tokenToIndex, inputKey(g.type, g.input)) = NoId
    THEN generatorBreak(g)
    ELSE generatorAdvance(model, g,
             generatorSample(model, g,
                 generatorSoftmax(g,
                     generatorProbs(model, g,
                         lookup(model.tokenToIndex, inputKey(g.type, g.input)))),
                 rand))

(***************************************************************************)
(* The state machine                                                       *)
(*                                                                         *)
(* heap        the model objects allocated so far, by address              *)
(* modelRef    the address of the model the caller holds (modelRef.current)*)
(* encodedText the corpus as token ids (encodedTextRef.current)            *)
(* currentStep the cursor into the corpus (currentStepRef.current)         *)
(* res         the last training call: its inputs, the heap before it and  *)
(*             what it returned                                            *)
(* gen         the generate call in progress or last returned              *)
(* split       the two-windows / one-window comparison in progress         *)
(* play        the Playground's React state and refs beside the above      *)
(***************************************************************************)
VARIABLES heap, modelRef, encodedText, currentStep, res, gen, split, play

vars == << heap, modelRef, encodedText, currentStep, res, gen, split, play >>

\* Hidden units of every model.
HiddenSize == 2

\* Seeds of the drawn parameters.
MaxSeed == 1

\* Corpus length, cursor and window size of a training call.
MaxLen == 3
MaxWindow == 2

\* Model objects a run allocates.
MaxModels == 3

TrainVocab == << << "a" >>, << "b" >> >>

RECURSIVE SeqsUpTo(_, _)
SeqsUpTo(S, n) ==
    IF n = 0 THEN { << >> }
    ELSE LET shorter == SeqsUpTo(S, n - 1)
         IN  shorter \cup { Append(s, x) : s \in { q \in shorter : Len(q) = n - 1 }, x \in S }

LearningRates == {0, 2}
DropoutRates == {0, Scale \div 2}

\* The outcomes of the Math.random() < dropoutRate draws of a window, one row per time step.
drawsOf(k, length) ==
    [t \in 1..length |-> [j \in 1..HiddenSize |-> ((t + j + k) % 3) = 0]]
NoDrops(length) == [t \in 1..length |-> [j \in 1..HiddenSize |-> FALSE]]

NoResult == [kind |-> "none"]
SplitIdle == [pc |-> "idle"]
\* The Playground component is not mounted.
NoPlay == [trainingState |-> "UNMOUNTED"]

Init ==
    /\ \E type \in ModelTypes, seed \in 1..MaxSeed :
          heap = << loadedModel(type, TrainVocab, HiddenSize, seed) >>
    /\ modelRef = 1
    /\ encodedText \in SeqsUpTo(0..(Len(TrainVocab) - 1), MaxLen)
    /\ currentStep \in 0..MaxLen
    /\ res = NoResult
    /\ gen = GenIdle
    /\ split = SplitIdle
    /\ play = NoPlay

\* modelRef.current = result.updatedModel; currentStepRef.current += batchSize.  res
\* records the call r answers.
takeResult(batchSize, currentLearningRate, dropoutRate, draws, r) ==
    /\ heap' = r.heap
    /\ modelRef' = r.updatedModel
    /\ currentStep' = currentStep + batchSize
    /\ res' = [kind |-> "train", model |-> modelRef, before |-> heap,
               step |-> currentStep, batchSize |-> batchSize,
               learningRate |-> currentLearningRate,
               dropoutRate |-> dropoutRate, draws |-> draws, out |-> r]

\* runTrainingStep: the engine is called on the held model at the cursor.
runTrainingStep(batchSize, currentLearningRate, dropoutRate, draws) ==
    /\ gen.pc # "loop"
    /\ takeResult(batchSize, currentLearningRate, dropoutRate, draws,
                  trainStep(heap, modelRef, encodedText, currentStep, batchSize,
                            currentLearningRate, dropoutRate, draws))
    /\ UNCHANGED << encodedText, gen, play >>

Train ==
    /\ Len(heap) < MaxModels
    /\ UNCHANGED split
    /\ \E batchSize \in 0..MaxWindow, currentLearningRate \in LearningRates,
          dropoutRate \in DropoutRates :
          /\ heap[modelRef].type = "FFNN" => dropoutRate = 0
          /\ runTrainingStep(batchSize, currentLearningRate, dropoutRate,
                             IF dropoutRate = 0 THEN NoDrops(MaxWindow)
                             ELSE drawsOf(currentStep, MaxWindow))

Next == Train

Spec == Init /\ [][Next]_vars

(***************************************************************************)
(* Generation between training steps                                       *)
(***************************************************************************)
\* Vocabularies as the tokenizers build them: the custom tokenizer sorts by length
\* descending, then alphabetically; the character tokenizer sorts the characters.
CustomVocab == << << "h", "e" >>, << "t", "h" >>, << " " >> >>
CharVocab == << << " " >>, << "a" >>, << "b" >> >>
MixedVocab == << << "t", "h" >>, << "h" >>, << "t" >> >>
GenVocabs == {CustomVocab, CharVocab, MixedVocab}

GenSeeds ==
    {<< "t", "h" >>, << "h", "e" >>, << "a" >>, << "h" >>, << " " >>, << "x" >>,
     << "x", "h" >>, << >>}

\* The generator's length argument and the temperatures it is called with.
MaxGenLength == 3
Temperatures == {Scale \div 2, Scale}

\* Model objects a run with generation allocates.
MaxGenModels == 2

GenCorpus == << 0, 1, 2, 1 >>

InitGen ==
    /\ \E type \in ModelTypes, vocab \in GenVocabs, seed \in 1..MaxSeed :
          heap = << loadedModel(type, vocab, HiddenSize, seed) >>
    /\ modelRef = 1
    /\ encodedText = GenCorpus
    /\ currentStep = 0
    /\ res = NoResult
    /\ gen = GenIdle
    /\ split = SplitIdle
    /\ play = NoPlay

\* generateFFNN / generateRNN / generateGRU / generateLSTM is entered on the held model.
GenCall ==
    /\ gen.pc # "loop"
    /\ \E seed \in GenSeeds, length \in 0..MaxGenLength, temperature \in Temperatures :
          gen' = generatorEnter(heap, modelRef, seed, length, temperature)
    /\ UNCHANGED << heap, modelRef, encodedText, currentStep, res, split, play >>

\* One iteration of the generator's loop; rand is that iteration's Math.random().
GenIterate ==
    /\ gen.pc = "loop"
    /\ \E rand \in 0..(Scale - 1) :
          gen' = generatorIterate(heap[gen.model], gen, rand)
    /\ UNCHANGED << heap, modelRef, encodedText, currentStep, res, split, play >>

\* A training step taken while no generate call is running.
TrainBetween ==
    /\ Len(heap) < MaxGenModels
    /\ runTrainingStep(MaxWindow, 2, 0, NoDrops(MaxWindow))
    /\ UNCHANGED split

NextGen == GenCall \/ GenIterate \/ TrainBetween

SpecGen == InitGen /\ [][NextGen]_vars

(***************************************************************************)
(* Two windows of k against one window of 2k                               *)
(***************************************************************************)
MaxK == 2
MaxSplitLen == 5

InitSplit ==
    /\ \E type \in Recurrent, seed \in 1..MaxSeed :
          heap = << loadedModel(type, TrainVocab, HiddenSize, seed) >>
    /\ modelRef = 1
    /\ encodedText \in { e \in SeqsUpTo(0..(Len(TrainVocab) - 1), MaxSplitLen) : Len(e) >= 2 }
    /\ currentStep = 0
    /\ res = NoResult
    /\ gen = GenIdle
    /\ split = SplitIdle
    /\ play = NoPlay

\* The first window of k, at cursor 0.
SplitFirst ==
    /\ split.pc = "idle"
    /\ \E k \in 1..MaxK, learningRate \in LearningRates, dropoutRate \in DropoutRates :
          /\ runTrainingStep(k, learningRate, dropoutRate,
                             IF dropoutRate = 0 THEN NoDrops(2 * MaxK)
                             ELSE drawsOf(0, 2 * MaxK))
          /\ split' = [pc |-> "first", k |-> k, learningRate |-> learningRate,
                       dropoutRate |-> dropoutRate, origin |-> modelRef,
                       draws |-> IF dropoutRate = 0 THEN NoDrops(2 * MaxK)
                                 ELSE drawsOf(0, 2 * MaxK)]

\* The second window of k, on the returned model at the advanced cursor.
SplitSecond ==
    /\ split.pc = "first"
    /\ runTrainingStep(split.k, split.learningRate, split.dropoutRate, split.draws)
    /\ split' = [pc |-> "second", k |-> split.k, learningRate |-> split.learningRate,
                 dropoutRate |-> split.dropoutRate, origin |-> split.origin,
                 draws |-> split.draws, second |-> modelRef']

\* The comparison call's result r is kept beside the two-window run.
keepWhole(r) ==
    /\ heap' = r.heap
    /\ split' = [pc |-> "whole", k |-> split.k, learningRate |-> split.learningRate,
                 dropoutRate |-> split.dropoutRate, origin |-> split.origin,
                 draws |-> split.draws, second |-> split.second,
                 whole |-> r.updatedModel]

\* The single window of 2k, on the original model at cursor 0.
Whole ==
    /\ split.pc = "second"
    /\ keepWhole(trainStep(heap, split.origin, encodedText, 0, 2 * split.k,
                           split.learningRate, split.dropoutRate, split.draws))
    /\ UNCHANGED << modelRef, encodedText, currentStep, res, gen, play >>

NextSplit == SplitFirst \/ SplitSecond \/ Whole

SpecSplit == InitSplit /\ [][NextSplit]_vars

(***************************************************************************)
(* Training of a model with large weights                                  *)
(*                                                                         *)
(* Weights grow without bound under training, and handleLoadModel takes    *)
(* the model of a saved file as it is: the training steps are also handed  *)
(* models whose gradients are large enough for every backward path to      *)
(* carry a value and for the clip to bite.                                 *)
(***************************************************************************)
\* The factor by which the weights of such a model exceed the drawn ones.
WeightGain == 4

\* loadedModel with every layer's weights multiplied by WeightGain.
steepModel(type, vocab, hiddenSize, seed) ==
    LET m == loadedModel(type, vocab, hiddenSize, seed)
    IN  [k \in DOMAIN m |->
            IF k \in {"type", "vocab", "tokenToIndex", "h", "c"} THEN m[k]
            ELSE [weights |-> scale(m[k].weights, WeightGain * Scale),
                  biases |-> m[k].biases]]

InitSteep ==
    /\ \E type \in ModelTypes, seed \in 1..MaxSeed :
          heap = << steepModel(type, TrainVocab, HiddenSize, seed) >>
    /\ modelRef = 1
    /\ encodedText \in SeqsUpTo(0..(Len(TrainVocab) - 1), MaxLen)
    /\ currentStep \in 0..MaxLen
    /\ res = NoResult
    /\ gen = GenIdle
    /\ split = SplitIdle
    /\ play = NoPlay

SpecSteep == InitSteep /\ [][Next]_vars

(***************************************************************************)
(* Training on long windows                                                *)
(*                                                                         *)
(* The Playground's default windows hold many pairs: over a long window    *)
(* the accumulated gradients leave [-5, 5] although no single pair's       *)
(* contribution does.                                                      *)
(***************************************************************************)
LongLen == 9
LongWindow == 8

\* Corpora of one repeated token and of two alternating tokens.
LongCorpora ==
    { [i \in 1..LongLen |-> 0], [i \in 1..LongLen |-> 1], [i \in 1..LongLen |-> i % 2] }

LongRates == {2, Scale}

InitLong ==
    /\ \E type \in ModelTypes, seed \in 1..MaxSeed :
          \/ heap = << loadedModel(type, TrainVocab, HiddenSize, seed) >>
          \/ heap = << steepModel(type, TrainVocab, HiddenSize, seed) >>
    /\ modelRef = 1
    /\ encodedText \in LongCorpora
    /\ currentStep \in {0, LongLen - 2}
    /\ res = NoResult
    /\ gen = GenIdle
    /\ split = SplitIdle
    /\ play = NoPlay

TrainLong ==
    /\ Len(heap) < MaxModels
    /\ UNCHANGED split
    /\ \E batchSize \in {1, LongWindow}, currentLearningRate \in LongRates,
          dropoutRate \in DropoutRates :
          /\ heap[modelRef].type = "FFNN" => dropoutRate = 0
          /\ runTrainingStep(batchSize, currentLearningRate, dropoutRate,
                             IF dropoutRate = 0 THEN NoDrops(LongWindow)
                             ELSE drawsOf(currentStep, LongWindow))

NextLong == TrainLong

SpecLong == InitLong /\ [][NextLong]_vars

(***************************************************************************)
(* Properties of the training steps                                        *)
(***************************************************************************)
\* The model a training call was handed, as it was before the call, and the one it returned.
inputModel == res.before[res.model]
returnedModel == heap[res.out.updatedModel]

\* The number of (input, target) pairs between the cursor and the end of the window.
pairsInWindow ==
    LET len == Len(encodedText)
        last == IF res.step + res.batchSize <= len - 1 THEN res.step + res.batchSize
                ELSE len - 1
    IN  IF last > res.step THEN last - res.step ELSE 0

\* C1: a training step of any of the four architectures returns as predictionResults
\* exactly the pairs (vocab[encodedText[i]] -> vocab[encodedText[i+1]]) for i from the
\* cursor to min(cursor + windowSize, encodedText.length - 1) - 1, in that order.
C1_PredictionResultsAreTheWindowPairs ==
    res.kind = "train" =>
        /\ Len(res.out.predictionResults) = pairsInWindow
        /\ \A k \in 1..pairsInWindow :
              /\ res.out.predictionResults[k].inputToken =
                    inputModel.vocab[encodedText[res.step + k] + 1]
              /\ res.out.predictionResults[k].targetToken =
                    inputModel.vocab[encodedText[res.step + k + 1] + 1]

\* A window truncated by the end of the corpus, entered at a non-zero cursor, and a
\* full window of two different pairs.
C1_Witness ==
    /\ res.kind = "train"
    /\ \/ /\ res.step = 1 /\ res.batchSize = 2 /\ Len(encodedText) = 3
          /\ Len(res.out.predictionResults) = 1
       \/ /\ res.step = 0 /\ res.batchSize = 2
          /\ Len(res.out.predictionResults) = 2
          /\ res.out.predictionResults[1].inputToken # res.out.predictionResults[2].inputToken
    /\ inputModel.type = "GRU"

\* C2: when the window is empty (the cursor is at or past encodedText.length - 1) the
\* training step of each architecture does not throw and returns loss 0, no
\* prediction and a model whose every weight, bias and state equals the input model's.
C2_EmptyWindowIsANoOp ==
    (res.kind = "train" /\ res.step >= Len(encodedText) - 1) =>
        /\ ~res.out.threw
        /\ res.out.loss = 0
        /\ res.out.predictionResults = << >>
        /\ returnedModel = inputModel

\* The FFNN step past the end of the corpus, which takes the update path and returns
\* a copy, and its early return at the end of the corpus, which returns the model itself.
C2_Witness ==
    /\ res.kind = "train"
    /\ inputModel.type = "FFNN"
    /\ res.step > Len(encodedText) - 1
    /\ res.batchSize > 0
    /\ res.learningRate > 0
    /\ res.out.updatedModel # res.model

\* C3: no training step changes the model it is handed, nor any model allocated
\* earlier, whatever calls came before.
C3_InputModelIsNotMutated ==
    res.kind = "train" =>
        \A a \in 1..Len(res.before) : heap[a] = res.before[a]

\* The second call of a run has returned a model that differs from its input.
C3_Witness ==
    /\ res.kind = "train"
    /\ Len(res.before) = 2
    /\ Len(heap) = 3
    /\ returnedModel # inputModel
    /\ heap[2] # heap[1]

\* The cache entry the forward loop computes at time t from the states h_prev, c_prev.
forwardStepOf(model, t, h_prev, c_prev, dropoutRate, draws) ==
    CASE model.type = "RNN" ->
           [h |-> RNNForwardStep(model, encodedText, t, h_prev, dropoutRate, draws).h_next_dropped,
            c |-> Null]
      [] model.type = "GRU" ->
           [h |-> GRUForwardStep(model, encodedText, t, h_prev, dropoutRate, draws).h_t_dropped,
            c |-> Null]
      [] model.type = "LSTM" ->
           [h |-> LSTMForwardStep(model, encodedText, t, h_prev, c_prev, dropoutRate,
                                  draws).h_t_dropped,
            c |-> LSTMForwardStep(model, encodedText, t, h_prev, c_prev, dropoutRate,
                                  draws).c_t]

\* C4: after a recurrent training step on a non-empty window the returned model's h
\* (and c for LSTM) is the state computed at the last processed time step, the one a
\* following time step would consume.
C4_ReturnedStateIsTheLastStepState ==
    (res.kind = "train" /\ inputModel.type \in Recurrent /\ pairsInWindow > 0) =>
        LET n == pairsInWindow
            lastStep == forwardStepOf(inputModel, res.step + n - 1,
                            res.out.hiddenStates[n],
                            IF inputModel.type = "LSTM" THEN res.out.cellStates[n] ELSE Null,
                            res.dropoutRate, res.draws[n])
        IN  /\ returnedModel.h = lastStep.h
            /\ inputModel.type = "LSTM" => returnedModel.c = lastStep.c

\* An LSTM window of two steps under dropout that moved both h and c.
C4_Witness ==
    /\ res.kind = "train"
    /\ inputModel.type = "LSTM"
    /\ pairsInWindow = 2
    /\ res.dropoutRate > 0
    /\ returnedModel.h # inputModel.h
    /\ returnedModel.c # inputModel.c
    /\ returnedModel.h # res.out.hiddenStates[2]

\* C5: with learning rate 0 and dropout 0, on a corpus of at least 2k + 1 tokens, a
\* window of k at cursor 0 followed by a window of k at cursor k on the returned model
\* ends in the same h (and c) as one window of 2k at cursor 0.
C5_TwoWindowsEqualOne ==
    (/\ split.pc = "whole"
     /\ split.learningRate = 0
     /\ split.dropoutRate = 0
     /\ Len(encodedText) >= 2 * split.k + 1) =>
        /\ heap[split.second].h = heap[split.whole].h
        /\ heap[split.origin].type = "LSTM" => heap[split.second].c = heap[split.whole].c

\* k = 2 on five tokens, where the second window moved the state on from the first.
C5_Witness ==
    /\ split.pc = "whole"
    /\ split.learningRate = 0
    /\ split.dropoutRate = 0
    /\ split.k = 2
    /\ Len(encodedText) = 5
    /\ heap[split.origin].type = "LSTM"
    /\ heap[split.second].h # heap[2].h
    /\ heap[split.second].c # heap[2].c
    /\ heap[2].h # heap[split.origin].h


(***************************************************************************)
(* Properties of the generators                                            *)
(***************************************************************************)
\* The model a generate call was handed, and the concatenation of a list of tokens.
generatorModel == gen.before[gen.model]

RECURSIVE Flatten(_)
Flatten(tokens) == IF tokens = << >> THEN << >> ELSE Head(tokens) \o Flatten(Tail(tokens))

\* C6: a generator called with a seed that is in the vocabulary returns the seed
\* followed by at most maxLength generated tokens, each of them a token of the
\* model's vocabulary and none of them the separator ' '.
C6_ReturnsSeedAndVocabularyTokens ==
    (gen.pc = "returned" /\ gen.seed \in DOMAIN generatorModel.tokenToIndex) =>
        /\ gen.returned = gen.seed \o Flatten(gen.tokens)
        /\ Len(gen.tokens) <= gen.length
        /\ \A n \in 1..Len(gen.tokens) :
              /\ \E k \in 1..Len(generatorModel.vocab) : generatorModel.vocab[k] = gen.tokens[n]
              /\ gen.tokens[n] # << " " >>

\* A generation that appended maxLength tokens, and one a sampled separator cut short
\* after one multi-character token.
C6_Witness ==
    /\ gen.pc = "returned"
    /\ gen.seed \in DOMAIN generatorModel.tokenToIndex
    /\ \/ Len(gen.tokens) = MaxGenLength
       \/ /\ Len(gen.tokens) = 1
          /\ gen.length = MaxGenLength
          /\ Len(gen.tokens[1]) = 2
          /\ Len(gen.trace) = 2
          /\ gen.trace[2].nextIndex # NoId
          /\ generatorModel.vocab[gen.trace[2].nextIndex + 1] = << " " >>

\* C7 as stated: when the seed is not in the token-to-index map, the generator
\* returns the empty string.
C7_UnknownSeedReturnsEmpty ==
    (gen.pc = "returned" /\ gen.seed \notin DOMAIN generatorModel.tokenToIndex) =>
        gen.returned = << >>

\* C7: when the key a generator looks up first (the seed for the recurrent
\* generators, the last character of the seed for generateFFNN) is not in the
\* token-to-index map, the generator stops without generating and returns the seed.
C7_UnknownKeyReturnsSeed ==
    (/\ gen.pc = "returned"
     /\ inputKey(gen.type, gen.seed) \notin DOMAIN generatorModel.tokenToIndex) =>
        /\ gen.returned = gen.seed
        /\ gen.tokens = << >>

\* A recurrent generator handed a non-empty unknown seed has returned it.
C7_Witness ==
    /\ gen.pc = "returned"
    /\ gen.type = "GRU"
    /\ gen.seed = << "x" >>
    /\ gen.length > 0
    /\ gen.returned = << "x" >>
    /\ Len(gen.trace) = 1

\* C8: at a step that zeroes the separator's probability (one of the first
\* MIN_WORD_LENGTH steps, ' ' in the vocabulary with a probability strictly between
\* 0 and 1) the separator is not the sampled token.
C8_SuppressedSeparatorIsNotSampled ==
    gen.pc # "idle" =>
        \A n \in 1..Len(gen.trace) :
            gen.trace[n].suppressed =>
                generatorModel.vocab[gen.trace[n].nextIndex + 1] # << " " >>

\* C9: in every generator called with a seed token of the vocabulary, the key looked
\* up at step 0 is the whole seed and the key looked up at step i + 1 is the whole
\* token sampled at step i.
C9_LooksUpTheWholeToken ==
    (gen.pc # "idle" /\ gen.seed \in DOMAIN generatorModel.tokenToIndex) =>
        \A n \in 1..Len(gen.trace) :
            gen.trace[n].key =
                IF n = 1 THEN gen.seed
                ELSE generatorModel.vocab[gen.trace[n - 1].nextIndex + 1]

\* C10: a recurrent generator's first forward step consumes the model's carried h
\* (and c), each later step consumes the state the step before produced, and the
\* generation leaves every model object as it was.
C10_StateIsThreadedAndModelUnchanged ==
    gen.pc # "idle" =>
        /\ \A a \in 1..Len(gen.before) : heap[a] = gen.before[a]
        /\ gen.type \in Recurrent =>
              \A n \in 1..Len(gen.trace) :
                  LET prev == IF n = 1
                              THEN [h |-> generatorModel.h,
                                    c |-> IF gen.type = "LSTM" THEN generatorModel.c ELSE Null]
                              ELSE generatorForward(generatorModel,
                                       generatorModel.tokenToIndex[gen.trace[n - 1].key],
                                       [h |-> gen.trace[n - 1].h_prev,
                                        c |-> gen.trace[n - 1].c_prev])
                  IN  /\ gen.trace[n].h_prev = prev.h
                      /\ gen.trace[n].c_prev = prev.c

\* An LSTM generation of three steps on a model a training step returned, whose
\* carried state is not zero and moved at every step.
C10_Witness ==
    /\ gen.pc # "idle"
    /\ gen.type = "LSTM"
    /\ gen.model = 2
    /\ Len(gen.trace) = 3
    /\ generatorModel.h # createMatrix(1, HiddenSize, 0)
    /\ gen.trace[2].h_prev # gen.trace[1].h_prev
    /\ gen.trace[3].c_prev # gen.trace[2].c_prev


(***************************************************************************)
(* Properties of the backward passes and the weight update                 *)
(***************************************************************************)
\* The locals of the backward iterations of the last training call, in loop order.
backwardSteps == res.out.gradients.steps

\* C11: in trainStepLSTM's backward pass the gradient handed to the earlier time step
\* is df_raw * Uf^T + di_raw * Ui^T + do_t * Uo^T + dc_hat_raw * Uc^T, where do_t is
\* the sigmoid-differentiated output-gate gradient accumulated into Wo, Uo and bo.
C11_LSTMdhNextSumsPreActivationGradients ==
    (res.kind = "train" /\ inputModel.type = "LSTM" /\ ~res.out.threw) =>
        \A n \in 1..Len(backwardSteps) :
            backwardSteps[n].dh_next_grad =
                add(add(add(dot(backwardSteps[n].df_raw, transpose(inputModel.Uf.weights)),
                            dot(backwardSteps[n].di_raw, transpose(inputModel.Ui.weights))),
                        dot(backwardSteps[n].do_t, transpose(inputModel.Uo.weights))),
                    dot(backwardSteps[n].dc_hat_raw, transpose(inputModel.Uc.weights)))


\* The cache entry of the forward step that the n-th backward iteration undoes.
cacheOfStep(n) == res.out.cache[Len(res.out.cache) - n + 1]

\* C12: in trainStepGRU's backward pass the gradient handed to the earlier time step
\* is the sum of exactly four contributions, dh * (1 - z_t), (dh_hat_raw * Uh^T) * r_t,
\* dz_raw * Uz^T and dr_raw * Ur^T, of the pre-activation gradients dz_raw, dr_raw and
\* dh_hat_raw.
C12_GRUdhNextSumsFourContributions ==
    (res.kind = "train" /\ inputModel.type = "GRU" /\ ~res.out.threw) =>
        \A n \in 1..Len(backwardSteps) :
            LET e == backwardSteps[n]
                c == cacheOfStep(n)
                one == [rows |-> 1, cols |-> HiddenSize,
                        data |-> << [j \in 1..HiddenSize |-> Scale] >>]
                viaCandidate == dot(e.dh_hat_raw, transpose(inputModel.Uh.weights))
            IN  /\ e.dh_hat_raw = multiply(multiply(e.dh, c.z_t), map(c.h_hat_t, "dtanh"))
                /\ e.dz_raw = multiply(multiply(e.dh, subtract(c.h_hat_t, c.h_prev)),
                                       map(c.z_t, "dsigmoid"))
                /\ e.dr_raw = multiply(multiply(viaCandidate, c.h_prev),
                                       map(c.r_t, "dsigmoid"))
                /\ e.dh_next_grad =
                      add(add(add(multiply(e.dh, subtract(one, c.z_t)),
                                  multiply(viaCandidate, c.r_t)),
                              dot(e.dz_raw, transpose(inputModel.Uz.weights))),
                          dot(e.dr_raw, transpose(inputModel.Ur.weights)))

\* A GRU window of two steps whose later step hands on a gradient to which all four
\* paths contribute.
C12_Witness ==
    /\ res.kind = "train"
    /\ inputModel.type = "GRU"
    /\ ~res.out.threw
    /\ Len(backwardSteps) = 2
    /\ dot(backwardSteps[1].dr_raw, transpose(inputModel.Ur.weights))
          # createMatrix(1, HiddenSize, 0)
    /\ dot(backwardSteps[1].dz_raw, transpose(inputModel.Uz.weights))
          # createMatrix(1, HiddenSize, 0)
    /\ multiply(dot(backwardSteps[1].dh_hat_raw, transpose(inputModel.Uh.weights)),
                cacheOfStep(1).r_t) # createMatrix(1, HiddenSize, 0)
    /\ backwardSteps[1].dh_prev_from_h # createMatrix(1, HiddenSize, 0)
    /\ backwardSteps[2].dh0 # dot(backwardSteps[2].dy, transpose(inputModel.Why.weights))


\* The number of pairs the last training call processed.
processed == Len(res.out.predictionResults)

\* Equality of two grid values up to the rounding of the last place.
Near(a, b) == a - b \in {0 - 1, 0, 1}

\* v limited to [-5, 5].
limited(v) == IF v > 5 * Scale THEN 5 * Scale ELSE IF v < 0 - 5 * Scale THEN 0 - 5 * Scale ELSE v

\* Every element of the parameter matrix `new` is the element of `old` minus
\* learningRate * clip(sumGrad / N, -5, 5).
dividedThenClipped(old, new, sumGrad, N, learningRate) ==
    \A i \in 1..old.rows : \A j \in 1..old.cols :
        Near(new.data[i][j],
             old.data[i][j] - Mul(learningRate, limited(RoundDiv(sumGrad.data[i][j], N))))

\* C13: trainStepFFNN divides the accumulated gradient by the number of examples
\* processed, then clips it to [-5, 5], then applies it: each parameter becomes
\* param - learningRate * clip(sumGrad / N, -5, 5).  Stated for the calls in which
\* learningRate / N is a value of the grid, so that only the order of the division
\* and the clip can make a difference.
C13_FFNNDividesThenClips ==
    (/\ res.kind = "train" /\ inputModel.type = "FFNN" /\ processed > 0 /\ ~res.out.threw
     /\ res.learningRate % processed = 0) =>
        /\ dividedThenClipped(inputModel.hiddenLayer.weights, returnedModel.hiddenLayer.weights,
                              res.out.gradients.hiddenLayer.weights, processed, res.learningRate)
        /\ dividedThenClipped(inputModel.hiddenLayer.biases, returnedModel.hiddenLayer.biases,
                              res.out.gradients.hiddenLayer.biases, processed, res.learningRate)
        /\ dividedThenClipped(inputModel.outputLayer.weights, returnedModel.outputLayer.weights,
                              res.out.gradients.outputLayer.weights, processed, res.learningRate)
        /\ dividedThenClipped(inputModel.outputLayer.biases, returnedModel.outputLayer.biases,
                              res.out.gradients.outputLayer.biases, processed, res.learningRate)


\* The parameters each training step trains, each with the gradient accumulated for it:
\* << layer, "weights" or "biases", name of the gradient >>.
trainedParameters(type) ==
    CASE type = "RNN" ->
           { << "Wxh", "weights", "dWxh" >>, << "Whh", "weights", "dWhh" >>,
             << "Why", "weights", "dWhy" >>, << "Wxh", "biases", "dbxh" >>,
             << "Why", "biases", "dbhy" >> }
      [] type = "GRU" ->
           { << "Wz", "weights", "Wz" >>, << "Uz", "weights", "Uz" >>, << "Wz", "biases", "bz" >>,
             << "Wr", "weights", "Wr" >>, << "Ur", "weights", "Ur" >>, << "Wr", "biases", "br" >>,
             << "Wh", "weights", "Wh" >>, << "Uh", "weights", "Uh" >>, << "Wh", "biases", "bh" >>,
             << "Why", "weights", "Why" >>, << "Why", "biases", "by" >> }
      [] type = "LSTM" ->
           { << "Wf", "weights", "Wf" >>, << "Uf", "weights", "Uf" >>, << "Wf", "biases", "bf" >>,
             << "Wi", "weights", "Wi" >>, << "Ui", "weights", "Ui" >>, << "Wi", "biases", "bi" >>,
             << "Wo", "weights", "Wo" >>, << "Uo", "weights", "Uo" >>, << "Wo", "biases", "bo" >>,
             << "Wc", "weights", "Wc" >>, << "Uc", "weights", "Uc" >>, << "Wc", "biases", "bc" >>,
             << "Why", "weights", "Why" >>, << "Why", "biases", "by" >> }

\* The bias gradients, each with the local of a backward iteration that is added to it.
biasContributions(type) ==
    CASE type = "RNN" -> { << "dbhy", "dy" >>, << "dbxh", "dh_raw" >> }
      [] type = "GRU" ->
           { << "by", "dy" >>, << "bh", "dh_hat_raw" >>, << "br", "dr_raw" >>,
             << "bz", "dz_raw" >> }
      [] type = "LSTM" ->
           { << "by", "dy" >>, << "bo", "do_t" >>, << "bc", "dc_hat_raw" >>,
             << "bi", "di_raw" >>, << "bf", "df_raw" >> }

\* The sum over the first n backward iterations of element j of the local `name`.
RECURSIVE contributed(_, _, _)
contributed(name, j, n) ==
    IF n = 0 THEN 0 ELSE contributed(name, j, n - 1) + backwardSteps[n][name].data[1][j]

\* The layers of a model: its fields that hold weights and biases.
layersOf(model) == DOMAIN model \ {"type", "vocab", "tokenToIndex", "h", "c"}

\* C14: the [-5, 5] clip is applied once to each fully accumulated gradient, right
\* before the update and never to the contribution of a single time step, every
\* trained parameter is updated with it, and so no parameter element changes by more
\* than 5 * learningRate in one call of a training step.
C14_ClipOnceOnAccumulatedGradient ==
    (res.kind = "train" /\ ~res.out.threw /\ res.out.updatedModel # res.model) =>
        /\ \A k \in layersOf(inputModel) : \A f \in {"weights", "biases"} :
              \A i \in 1..inputModel[k][f].rows : \A j \in 1..inputModel[k][f].cols :
                  /\ returnedModel[k][f].data[i][j] - inputModel[k][f].data[i][j]
                        <= Mul(5 * Scale, res.learningRate)
                  /\ inputModel[k][f].data[i][j] - returnedModel[k][f].data[i][j]
                        <= Mul(5 * Scale, res.learningRate)
        /\ inputModel.type \in Recurrent =>
              /\ \A p \in trainedParameters(inputModel.type) :
                    \A i \in 1..inputModel[p[1]][p[2]].rows :
                        \A j \in 1..inputModel[p[1]][p[2]].cols :
                            returnedModel[p[1]][p[2]].data[i][j] =
                                inputModel[p[1]][p[2]].data[i][j]
                                + Mul(limited(res.out.gradients[p[3]].data[i][j]),
                                      0 - res.learningRate)
              /\ \A b \in biasContributions(inputModel.type) :
                    \A j \in 1..res.out.gradients[b[1]].cols :
                        res.out.gradients[b[1]].data[1][j] =
                            contributed(b[2], j, Len(backwardSteps))

\* A GRU or LSTM call in which an accumulated bias gradient lies outside [-5, 5], the
\* contributions of the single time steps do not, and the bias moved by 5 * learningRate.
C14_Witness ==
    /\ res.kind = "train"
    /\ ~res.out.threw
    /\ inputModel.type \in {"GRU", "LSTM"}
    /\ res.learningRate > 0
    /\ \E j \in 1..Len(TrainVocab) :
          /\ res.out.gradients.by.data[1][j] > 5 * Scale
          /\ \A n \in 1..Len(backwardSteps) : backwardSteps[n].dy.data[1][j] <= Scale
          /\ inputModel.Why.biases.data[1][j] - returnedModel.Why.biases.data[1][j]
                = Mul(5 * Scale, res.learningRate)


\* The hidden state forward step c computed before dropout.
undropped(c) == IF inputModel.type = "RNN" THEN c.h_next ELSE c.h_t

\* The mask of a forward step whose draws Math.random() < dropoutRate came out as ds:
\* 0 where the unit is dropped, 1 / (1 - dropoutRate) elsewhere.
maskDrawn(ds) ==
    [rows |-> 1, cols |-> HiddenSize,
     data |-> << [j \in 1..HiddenSize |->
                    IF ds[j] THEN 0 ELSE Div(Scale, Scale - res.dropoutRate)] >>]

\* C15: with dropoutRate > 0 the mask multiplied into the hidden-state gradient at
\* backward step t is the mask generated and applied to the hidden state at forward
\* step t of the same call; with dropoutRate = 0 no mask is applied in either direction.
C15_BackwardReusesForwardMask ==
    (res.kind = "train" /\ inputModel.type \in Recurrent /\ ~res.out.threw) =>
        /\ Len(backwardSteps) = Len(res.out.cache)
        /\ \A n \in 1..Len(backwardSteps) :
              LET t == Len(res.out.cache) - n + 1
                  c == res.out.cache[t]
              IN  IF res.dropoutRate > 0
                  THEN /\ c.mask = maskDrawn(res.draws[t])
                       /\ res.out.hiddenStates[t + 1] = multiply(undropped(c), c.mask)
                       /\ backwardSteps[n].dh = multiply(backwardSteps[n].dh0, c.mask)
                  ELSE /\ res.out.hiddenStates[t + 1] = undropped(c)
                       /\ backwardSteps[n].dh = backwardSteps[n].dh0

\* A window of two steps under dropout whose two masks differ, each dropping a unit
\* that carried a state and a gradient.
C15_Witness ==
    /\ res.kind = "train"
    /\ inputModel.type = "LSTM"
    /\ ~res.out.threw
    /\ res.dropoutRate > 0
    /\ Len(backwardSteps) = 2
    /\ res.out.cache[1].mask # res.out.cache[2].mask
    /\ \A n \in 1..2 :
          /\ backwardSteps[n].dh # backwardSteps[n].dh0
          /\ res.out.hiddenStates[n + 1] # res.out.cache[n].h_t


(***************************************************************************)
(* The matrix library on operands of every pair of shapes                  *)
(***************************************************************************)
MaxDim == 2
MaxFill == 2

\* createMatrix(rows, cols, fillFn) for a few fill functions.
filled(rows, cols, seed) ==
    [rows |-> rows, cols |-> cols,
     data |-> [i \in 1..rows |-> [j \in 1..cols |-> (((2 * i + j + seed) % 3) - 1) * Scale]]]

Operands == { filled(r, c, s) : r \in 1..MaxDim, c \in 1..MaxDim, s \in 1..MaxFill }

callOf(op, a, b) ==
    CASE op = "dot"      -> dot(a, b)
      [] op = "add"      -> add(a, b)
      [] op = "subtract" -> subtract(a, b)
      [] op = "multiply" -> multiply(a, b)

InitMatrix ==
    /\ heap = << >>
    /\ modelRef = 0
    /\ encodedText = << >>
    /\ currentStep = 0
    /\ res = NoResult
    /\ gen = GenIdle
    /\ split = SplitIdle
    /\ play = NoPlay

\* One call of a library function; a raised error is recorded as MatError.
MatrixCall ==
    /\ \E op \in {"dot", "add", "subtract", "multiply"}, a \in Operands, b \in Operands :
          res' = [kind |-> "matrix", op |-> op, a |-> a, b |-> b, out |-> callOf(op, a, b)]
    /\ UNCHANGED << heap, modelRef, encodedText, currentStep, gen, split, play >>

(***************************************************************************)
(* softmax on rows of JavaScript numbers                                   *)
(*                                                                         *)
(* A number is a fixed-point integer, NaN, Infinity or -Infinity.  The     *)
(* operators below are the arithmetic of softmax on such numbers; on       *)
(* finite numbers they are the ones softmax above is written with.         *)
(***************************************************************************)
PositiveInfinity == << "Infinity" >>
NegativeInfinity == << "-Infinity" >>

\* Number.isFinite(x), read off the printed form of x.
isFinite(x) == ToString(x) \notin { ToString(NaN), ToString(PositiveInfinity), ToString(NegativeInfinity) }
isNaN(x) == ~isFinite(x) /\ x = NaN
allFinite(row) == \A j \in DOMAIN row : isFinite(row[j])

\* Math.max(...row): NaN when an argument is NaN, -Infinity when there is none.
mathMax(row) ==
    IF \E j \in DOMAIN row : isNaN(row[j]) THEN NaN
    ELSE IF \E j \in DOMAIN row : ~isFinite(row[j]) /\ row[j] = PositiveInfinity
         THEN PositiveInfinity
    ELSE LET finite == SelectSeq(row, isFinite)
         IN  IF Len(finite) = 0 THEN NegativeInfinity ELSE RowMax(finite, Len(finite))

\* x - maxVal.
minus(x, maxVal) ==
    IF isNaN(x) \/ isNaN(maxVal) THEN NaN
    ELSE IF isFinite(x) /\ isFinite(maxVal) THEN x - maxVal
    ELSE IF isFinite(maxVal) THEN x
    ELSE IF isFinite(x)
         THEN IF maxVal = PositiveInfinity THEN NegativeInfinity ELSE PositiveInfinity
    ELSE IF x = maxVal THEN NaN ELSE x

\* Math.exp(x).
mathExp(x) ==
    IF isFinite(x) THEN exp(x)
    ELSE IF x = NegativeInfinity THEN 0
    ELSE x

\* exps.reduce((a, b) => a + b, 0); no exponential is negative.
sumOf(exps) ==
    IF \E j \in DOMAIN exps : isNaN(exps[j]) THEN NaN
    ELSE IF \E j \in DOMAIN exps : ~isFinite(exps[j]) THEN PositiveInfinity
    ELSE RowSum(exps, Len(exps))

\* A faulty quotient that leaves the exponentials as they are.
quotientUnnormalised(e, sumExps) == e

\* e / (sumExps || 1): 0 and NaN are falsy.
quotient(e, sumExps) ==
    IF isNaN(sumExps) THEN e
    ELSE IF isFinite(sumExps)
         THEN IF isFinite(e) THEN Div(e, IF sumExps = 0 THEN Scale ELSE sumExps) ELSE e
    ELSE IF isFinite(e) THEN 0 ELSE NaN

\* softmax(m) for a 1 x n matrix m of numbers.
softmaxOfNumbers(m) ==
    IF m.rows = 0 \/ m.cols = 0 THEN createMatrix(1, m.cols, 0)
    ELSE LET maxVal == mathMax(m.data[1])
             exps == [j \in 1..m.cols |-> mathExp(minus(m.data[1][j], maxVal))]
             sumExps == sumOf(exps)
         IN  [rows |-> 1, cols |-> m.cols,
              data |-> << [j \in 1..m.cols |-> quotient(exps[j], sumExps)] >>]

\* The sum x + c of two finite numbers as a floating-point number with a mantissa
\* of MantissaBits bits: the nearest representable number, ties to the even mantissa.
MantissaBits == 6

RECURSIVE pow2(_)
pow2(n) == IF n = 0 THEN 1 ELSE 2 * pow2(n - 1)

RECURSIVE ulpOf(_, _)
ulpOf(v, u) == IF v \div u < pow2(MantissaBits) THEN u ELSE ulpOf(v, 2 * u)

nearest(v) ==
    LET u == ulpOf(v, 1)
        q == v \div u
        r == v % u
    IN  IF 2 * r < u \/ (2 * r = u /\ q % 2 = 0) THEN q * u ELSE (q + 1) * u

floatSum(x, c) == IF x + c >= 0 THEN nearest(x + c) ELSE 0 - nearest(0 - (x + c))

\* x + c for any number x and a finite c.
plus(x, c) == IF isFinite(x) THEN floatSum(x, c) ELSE x

MaxCols == 3
MaxLogit == 2
BigShift == 1024

\* The logits a row is drawn from.
Logits ==
    << NaN, PositiveInfinity, NegativeInfinity >> \o [k \in 1..(MaxLogit + 2) |-> (k - 2) * Scale]
Shifts == { 0, Scale, BigShift }
rowMatrix(row) == [rows |-> 1, cols |-> Len(row), data |-> << row >>]

\* A row of at most MaxCols logits and a constant, before softmax is called.
InitSoftmax ==
    /\ heap = << >>
    /\ modelRef = 0
    /\ encodedText = << >>
    /\ currentStep = 0
    /\ \E n \in 0..MaxCols, c \in Shifts :
          \E drawnLogits \in [1..n -> 1..Len(Logits)] :
             res = [kind |-> "logits", shift |-> c,
                    logits |-> [j \in 1..n |-> Logits[drawnLogits[j]]]]
    /\ gen = GenIdle
    /\ split = SplitIdle
    /\ play = NoPlay

\* softmax on the row of logits and on the same row with the constant added to
\* every logit.
SoftmaxCall ==
    /\ res.kind = "logits"
    /\ LET shifted == [j \in 1..Len(res.logits) |-> plus(res.logits[j], res.shift)]
       IN  res' = [kind |-> "softmax", logits |-> res.logits, shift |-> res.shift,
                   shifted |-> shifted,
                   out |-> softmaxOfNumbers(rowMatrix(res.logits)),
                   outShifted |-> softmaxOfNumbers(rowMatrix(shifted))]
    /\ UNCHANGED << heap, modelRef, encodedText, currentStep, gen, split, play >>

NextSoftmax == SoftmaxCall
SpecSoftmax == InitSoftmax /\ [][NextSoftmax]_vars

\* ---------------------------------------------------------------------------
\* phonotactics.ts and wordValidator.ts. A string is the sequence of its
\* characters, so a token such as "str" is << "s", "t", "r" >>.
\* ---------------------------------------------------------------------------
SIMPLE_ONSETS ==
    { << "b" >>, << "c" >>, << "d" >>, << "f" >>, << "g" >>, << "k" >>, << "l" >>,
      << "m" >>, << "n" >>, << "p" >>, << "r" >>, << "s" >>, << "t" >>, << "v" >> }

CLUSTER_ONSETS ==
    { << "b", "r" >>, << "p", "r" >>, << "d", "r" >>, << "g", "r" >>, << "f", "r" >>,
      << "c", "r" >>, << "c", "l" >>, << "p", "l" >>, << "g", "l" >>, << "f", "l" >>,
      << "s", "l" >>, << "s", "m" >>, << "s", "n" >>, << "s", "p" >>, << "s", "t" >>,
      << "t", "r" >>, << "s", "p", "r" >>, << "s", "t", "r" >>, << "s", "c", "r" >>,
      << "s", "k" >>, << "s", "p", "l" >> }

ONSETS == SIMPLE_ONSETS \cup CLUSTER_ONSETS

\* The vowels as characters, and as the one-character tokens of the set VOWELS.
VowelChars == { "a", "e", "i", "o", "u" }
VOWELS == { << c >> : c \in VowelChars }

SIMPLE_CODAS ==
    { << "m" >>, << "n" >>, << "t" >>, << "k" >>, << "p" >>, << "g" >>, << "l" >>,
      << "r" >> }

CLUSTER_CODAS ==
    { << "m", "p" >>, << "n", "d" >>, << "n", "t" >>, << "n", "k" >>, << "s", "t" >>,
      << "s", "k" >>, << "s", "p" >>, << "r", "m" >>, << "r", "n" >>, << "r", "l" >>,
      << "r", "p" >>, << "r", "t" >>, << "r", "k" >>, << "s", "m" >>, << "s", "h" >> }

CODAS == SIMPLE_CODAS \cup CLUSTER_CODAS

EXTENSIONS ==
    { << "s", "e", "t" >>, << "i", "s", "h" >>, << "l", "e", "t" >>, << "d", "e", "r" >>,
      << "k", "i", "n" >>, << "l", "i", "n", "g" >>, << "s", "t", "e", "r" >>,
      << "m", "e", "r" >>, << "n", "e", "r" >>, << "l", "e", "r" >>, << "g", "e", "n" >>,
      << "g", "l", "e" >>, << "p", "l", "e" >>, << "b", "l", "e" >>, << "d", "l", "e" >> }

\* ALL_TOKENS and CONSONANT_CLUSTERS are arrays sorted by length, longest first;
\* two different tokens of one length never match at one position, so the first
\* match of a scan of the array is the longest token of the set that matches.
ALL_TOKENS == ONSETS \cup VOWELS \cup CODAS \cup EXTENSIONS
CONSONANT_CLUSTERS == ONSETS \cup CODAS

\* String.prototype.startsWith(token, i), i counted from 0.
startsWith(word, token, i) ==
    /\ i + Len(token) <= Len(word)
    /\ \A k \in 1..Len(token) : word[i + k] = token[k]

\* The token the scan `for (const token of tokens) if (word.startsWith(token, i))`
\* stops at, << >> when the scan ends without a match.
firstMatch(tokens, word, i) ==
    LET matching == { t \in tokens : startsWith(word, t, i) }
    IN  IF matching = {} THEN << >>
        ELSE CHOOSE t \in matching : \A u \in matching : Len(u) <= Len(t)

\* tokenizeWord from position i with the tokens found so far; null is
\* << << >> >>, which no tokenization equals since no token is empty.
NullTokens == << << >> >>

RECURSIVE tokenizeFrom(_, _, _)
tokenizeFrom(word, i, tokens) ==
    IF i >= Len(word) THEN tokens
    ELSE LET token == firstMatch(ALL_TOKENS, word, i)
         IN  IF token = << >> THEN NullTokens
             ELSE tokenizeFrom(word, i + Len(token), Append(tokens, token))

tokenizeWord(word) == tokenizeFrom(word, 0, << >>)

RECURSIVE clusterFrom(_, _)
clusterFrom(cluster, i) ==
    IF i >= Len(cluster) THEN TRUE
    ELSE LET token == firstMatch(CONSONANT_CLUSTERS, cluster, i)
         IN  IF token = << >> THEN FALSE
             ELSE clusterFrom(cluster, i + Len(token))

isValidConsonantCluster(cluster) == clusterFrom(cluster, 0)

\* Rule 0 of isGoodWord.
MinGoodLength == 2
MaxGoodLength == 12

\* Rule 3 of isGoodWord: the patterns xyxyx and xyzxyz.
repetitive(word) ==
    \/ \E i \in 1..(Len(word) - 4) :
          word[i] = word[i + 2] /\ word[i] = word[i + 4] /\ word[i + 1] = word[i + 3]
    \/ \E i \in 1..(Len(word) - 5) :
          word[i] = word[i + 3] /\ word[i + 1] = word[i + 4] /\ word[i + 2] = word[i + 5]

isConsonant(char) == char \notin VowelChars

\* Rule 2 of isGoodWord: the loop over word + 'a' from character k on, with the
\* run of consonants collected so far.
RECURSIVE clustersFrom(_, _, _)
clustersFrom(chars, k, consonantRun) ==
    IF k > Len(chars) THEN TRUE
    ELSE IF isConsonant(chars[k])
         THEN clustersFrom(chars, k + 1, Append(consonantRun, chars[k]))
         ELSE IF Len(consonantRun) >= 3 /\ ~isValidConsonantCluster(consonantRun)
              THEN FALSE
              ELSE clustersFrom(chars, k + 1, << >>)

validClusters(word) == clustersFrom(Append(word, "a"), 1, << >>)

\* One step of the syllable state machine; "REJECT" stands for `return false`.
syllableStep(state, token) ==
    CASE state = "START" ->
            IF token \in ONSETS THEN "ONSET"
            ELSE IF token \in VOWELS THEN "VOWEL" ELSE "REJECT"
      [] state = "ONSET" ->
            IF token \in VOWELS THEN "VOWEL"
            ELSE IF token \in ONSETS THEN "ONSET" ELSE "REJECT"
      [] state = "VOWEL" ->
            IF token \in CODAS THEN "CODA"
            ELSE IF token \in EXTENSIONS THEN "EXTENSION"
            ELSE IF token \in ONSETS THEN "ONSET"
            ELSE IF token \in VOWELS THEN "VOWEL" ELSE "REJECT"
      [] state = "CODA" ->
            IF token \in EXTENSIONS THEN "EXTENSION"
            ELSE IF token \in CODAS THEN "CODA"
            ELSE IF token \in ONSETS THEN "ONSET"
            ELSE IF token \in VOWELS THEN "VOWEL" ELSE "REJECT"
      [] OTHER -> "REJECT"

RECURSIVE syllablesFrom(_, _, _)
syllablesFrom(tokens, k, state) ==
    IF k > Len(tokens) \/ state = "REJECT" THEN state
    ELSE syllablesFrom(tokens, k + 1, syllableStep(state, tokens[k]))

isGoodWord(word) ==
    IF Len(word) < MinGoodLength \/ Len(word) > MaxGoodLength THEN FALSE
    ELSE IF repetitive(word) THEN FALSE
    ELSE IF ~(\E k \in 1..Len(word) : word[k] \in VowelChars) THEN FALSE
    ELSE IF ~validClusters(word) THEN FALSE
    ELSE LET tokens == tokenizeWord(word)
         IN  IF tokens = NullTokens \/ Len(tokens) = 0 THEN FALSE
             ELSE syllablesFrom(tokens, 1, "START") \in {"VOWEL", "CODA", "EXTENSION"}

\* isGoodWord on generated words: words over a few letters, and longer words
\* made of a consonant run between two vowels.
MaxWordLen == 5
WordChars == { "a", "b", "f", "h", "r", "s", "t" }

InitWord ==
    /\ heap = << >>
    /\ modelRef = 0
    /\ encodedText = << >>
    /\ currentStep = 0
    /\ \E n \in 0..MaxWordLen :
          \E word \in [1..n -> WordChars] : res = [kind |-> "word", word |-> word]
    /\ gen = GenIdle
    /\ split = SplitIdle
    /\ play = NoPlay

WordCall ==
    /\ res.kind = "word"
    /\ res' = [kind |-> "isGoodWord", word |-> res.word, out |-> isGoodWord(res.word)]
    /\ UNCHANGED << heap, modelRef, encodedText, currentStep, gen, split, play >>

NextWord == WordCall
SpecWord == InitWord /\ [][NextWord]_vars

NextMatrix == MatrixCall
SpecMatrix == InitMatrix /\ [][NextMatrix]_vars

(***************************************************************************)
(* Claims: the matrix library                                              *)
(***************************************************************************)
sameShape(a, b) == a.rows = b.rows /\ a.cols = b.cols

\* a.data[i][j] + b.data[0][j] for every element of a; a column b lacks gives NaN.
broadcastSum(a, b) ==
    [rows |-> a.rows, cols |-> a.cols,
     data |-> [i \in 1..a.rows |-> [j \in 1..a.cols |->
                 IF j \in DOMAIN b.data[1] THEN a.data[i][j] + b.data[1][j] ELSE NaN]]]

\* C16: dot raises when a.cols # b.rows; subtract and multiply raise when the shapes
\* differ; add never raises: on a shape mismatch it returns the broadcast sum when
\* a.rows > 1 and b.rows = 1, and its first operand unchanged otherwise.
C16_ShapeMismatchOutcomes ==
    res.kind = "matrix" =>
        CASE res.op = "dot" -> IsErr(res.out) <=> res.a.cols # res.b.rows
          [] res.op \in {"subtract", "multiply"} ->
                IsErr(res.out) <=> ~sameShape(res.a, res.b)
          [] res.op = "add" ->
                /\ ~IsErr(res.out)
                /\ ~sameShape(res.a, res.b) =>
                      IF res.a.rows > 1 /\ res.b.rows = 1
                      THEN res.out = broadcastSum(res.a, res.b)
                      ELSE res.out = res.a

\* add on a 1 x 2 first operand and a 2 x 2 second one: no broadcast, a comes back.
C16_Witness ==
    /\ res.kind = "matrix"
    /\ res.op = "add"
    /\ res.a.rows = 1 /\ res.b.rows = 2 /\ res.a.cols = 2 /\ res.b.cols = 2
    /\ res.out = res.a


(***************************************************************************)
(* Claims: what every model keeps                                          *)
(***************************************************************************)
\* m is a rows x cols matrix: data holds `rows` rows of `cols` elements each.
isMatrix(m, rows, cols) ==
    /\ m.rows = rows
    /\ m.cols = cols
    /\ DOMAIN m.data = 1..rows
    /\ \A i \in 1..rows : DOMAIN m.data[i] = 1..cols

\* The sizes createLayer is called with for each layer of the four architectures.
inputSizeOf(name, vocabSize, hiddenSize) ==
    IF name \in {"hiddenLayer", "Wxh", "Wz", "Wr", "Wh", "Wf", "Wi", "Wo", "Wc"}
    THEN vocabSize ELSE hiddenSize
outputSizeOf(name, vocabSize, hiddenSize) ==
    IF name \in {"outputLayer", "Why"} THEN vocabSize ELSE hiddenSize

\* C17: every model an initializer laid out, before and after training on valid
\* token IDs, has every layer's weights in x out (data of `in` rows of `out` elements)
\* and biases 1 x out, and its carried h (and c) is 1 x hiddenSize.
C17_LayersKeepTheirShape ==
    \A a \in 1..Len(heap) :
        LET m == heap[a]
            V == Len(m.vocab)
        IN  /\ \A k \in layersOf(m) :
                  /\ isMatrix(m[k].weights, inputSizeOf(k, V, HiddenSize),
                              outputSizeOf(k, V, HiddenSize))
                  /\ isMatrix(m[k].biases, 1, outputSizeOf(k, V, HiddenSize))
            /\ \A s \in DOMAIN m \cap {"h", "c"} : isMatrix(m[s], 1, HiddenSize)
            /\ layersOf(m) = layersOf(heap[1])

\* A training step on three tokens and two hidden units rewrote the weights and the
\* biases of a layer of the GRU and its carried state.
C17_Witness ==
    /\ res.kind = "train"
    /\ ~res.out.threw
    /\ inputModel.type = "GRU"
    /\ Len(inputModel.vocab) = 3
    /\ \E k \in layersOf(inputModel) :
          /\ returnedModel[k].weights # inputModel[k].weights
          /\ returnedModel[k].biases # inputModel[k].biases
    /\ returnedModel.h # inputModel.h


(***************************************************************************)
(* The tokenizers                                                          *)
(*                                                                         *)
(* A text is a sequence of characters and a token a sequence of            *)
(* characters.  The texts are written in the characters of Chars, listed   *)
(* in code order; the byte values are renumbered so that the range one     *)
(* byte encodes a character in (0..127 in UTF-8) holds Len(Chars) values   *)
(* and the range above it (128..255) holds HighBytes values.               *)
(***************************************************************************)
Chars == << "a", "b", "c" >>
HighBytes == 2
ByteValues == Len(Chars) + HighBytes

\* What TextDecoder (fatal: false) writes for a byte sequence that is not UTF-8.
ReplacementChar == "U+FFFD"

codeOf(ch) == CHOOSE k \in 1..Len(Chars) : Chars[k] = ch

charsOf(text) == {text[i] : i \in 1..Len(text)}

\* a sorts before b: same length here, the first differing character decides.
precedes(a, b) ==
    \E k \in 1..Len(a) :
        /\ k <= Len(b)
        /\ \A n \in 1..(k - 1) : a[n] = b[n]
        /\ codeOf(a[k]) < codeOf(b[k])

\* (a, b) => b.length - a.length || a.localeCompare(b) is negative.
customOrder(a, b) == Len(a) > Len(b) \/ (Len(a) = Len(b) /\ precedes(a, b))

\* Array.prototype.sort of a set of distinct tokens under customOrder.
RECURSIVE sorted(_)
sorted(tokens) ==
    IF tokens = {} THEN << >>
    ELSE LET first == CHOOSE x \in tokens : \A y \in tokens \ {x} : customOrder(x, y)
         IN  << first >> \o sorted(tokens \ {first})

\* Array.from(new Set(textToTrain.split(''))).sort().
characterVocab(text) == sorted({ << ch >> : ch \in charsOf(text) })

\* textToTrain.split('').map(char => tokenToIndex[char]).
encodeCharacter(text, tokenToIndex) ==
    [i \in 1..Len(text) |->
        IF << text[i] >> \in DOMAIN tokenToIndex THEN tokenToIndex[<< text[i] >>] ELSE NoId]

\* The user's tokens plus every character of the text that no token holds, sorted.
customVocab(customTokens, text) ==
    LET coveredChars == UNION { charsOf(customTokens[i]) : i \in 1..Len(customTokens) }
    IN  sorted({customTokens[i] : i \in 1..Len(customTokens)}
               \cup { << ch >> : ch \in charsOf(text) \ coveredChars })

\* encodeCustom: the first token of vocab that matches at i is taken; a character
\* no token matches is skipped.
RECURSIVE encodeCustom(_, _, _, _)
encodeCustom(text, vocab, tokenToIndex, i) ==
    IF i >= Len(text) THEN << >>
    ELSE LET matches == { k \in 1..Len(vocab) : startsWith(text, vocab[k], i) }
         IN  IF matches = {} THEN encodeCustom(text, vocab, tokenToIndex, i + 1)
             ELSE LET token == vocab[CHOOSE k \in matches : \A n \in matches : k <= n]
                  IN  << tokenToIndex[token] >>
                          \o encodeCustom(text, vocab, tokenToIndex, i + Len(token))

\* Array.from(textEncoder.encode(text)).
bytesOf(text) == [i \in 1..Len(text) |-> codeOf(text[i]) - 1]

\* decoder.decode(new Uint8Array(bytes)).
decode(bytes) ==
    [k \in 1..Len(bytes) |->
        IF bytes[k] < Len(Chars) THEN Chars[bytes[k] + 1] ELSE ReplacementChar]

pairAt(ids, i) == << ids[i], ids[i + 1] >>
countOf(ids, pair) == Cardinality({ i \in 1..(Len(ids) - 1) : pairAt(ids, i) = pair })
firstAt(ids, pair) ==
    CHOOSE i \in 1..(Len(ids) - 1) :
        pairAt(ids, i) = pair /\ \A n \in 1..(i - 1) : pairAt(ids, n) # pair

\* getStats then reduce((a, b) => a[1] > b[1] ? a : b): of the most frequent pairs
\* the one that entered the map last.
topPair(ids) ==
    CHOOSE p \in { pairAt(ids, i) : i \in 1..(Len(ids) - 1) } :
        \A q \in { pairAt(ids, i) : i \in 1..(Len(ids) - 1) } \ {p} :
            \/ countOf(ids, p) > countOf(ids, q)
            \/ countOf(ids, p) = countOf(ids, q) /\ firstAt(ids, p) > firstAt(ids, q)

\* merge(ids, pair, idx), scanning from the 0-based position i.
RECURSIVE merge(_, _, _, _)
merge(ids, pair, idx, i) ==
    IF i >= Len(ids) THEN << >>
    ELSE IF i < Len(ids) - 1 /\ ids[i + 1] = pair[1] /\ ids[i + 2] = pair[2]
         THEN << idx >> \o merge(ids, pair, idx, i + 2)
         ELSE << ids[i + 1] >> \o merge(ids, pair, idx, i + 1)

\* The merge loop of trainBPE from iteration i on; byteVocab[id + 1] is the byte
\* sequence of token id.
RECURSIVE bpeLoop(_, _, _, _, _)
bpeLoop(ids, i, numMerges, merges, byteVocab) ==
    IF i >= numMerges \/ Len(ids) < 2
    THEN [merges |-> merges, vocab |-> [id \in 1..Len(byteVocab) |-> decode(byteVocab[id])]]
    ELSE LET pair == topPair(ids)
             idx == ByteValues + i
         IN  bpeLoop(merge(ids, pair, idx, 0), i + 1, numMerges,
                     Append(merges, [pair |-> pair, idx |-> idx]),
                     Append(byteVocab, byteVocab[pair[1] + 1] \o byteVocab[pair[2] + 1]))

trainBPE(text, vocabSize) ==
    bpeLoop(bytesOf(text), 0, Max2(vocabSize - ByteValues, 0), << >>,
            [id \in 1..ByteValues |-> << id - 1 >>])

\* encodeBPE: the merges are applied in the order they were learned.
RECURSIVE applyMerges(_, _, _)
applyMerges(ids, merges, n) ==
    IF n > Len(merges) THEN ids
    ELSE applyMerges(merge(ids, merges[n].pair, merges[n].idx, 0), merges, n + 1)

encodeBPE(text, merges) == applyMerges(bytesOf(text), merges, 1)


(***************************************************************************)
(* The Playground                                                          *)
(*                                                                         *)
(* play holds the component's React state and refs under their source      *)
(* names; modelRef, encodedText and currentStep are the refs of the same   *)
(* names.  A state set in a handler is visible to the next handler: the    *)
(* effects that copy a state into its ref have run in between.             *)
(*                                                                         *)
(* Some fields of play are not in the source.  decays counts the times     *)
(* currentLearningRate was multiplied by decayFactor since it was set to   *)
(* learningRate, so that currentLearningRate is learningRate times         *)
(* decayFactor to the power decays; coachingSessions counts the entries    *)
(* into COACHING since initialize; steps counts the iterations of the      *)
(* training loop, which a run bounds by maxSteps, as it bounds the model   *)
(* objects it allocates by maxModels; coached counts the words the         *)
(* auto-coach loop reinforced, bounded by maxCoached.                      *)
(***************************************************************************)
EARLY_STOPPING_PATIENCE == 5
\* fineTuningEpochsRemainingRef.current = 5.
FineTuningEpochs == 5
\* Math.pow(FINAL_LR_MULTIPLIER, 1/5) = 0.63 on the grid of Scale.
decayFactor == 5
\* setEpochs(prev => prev + 50).
ContinueEpochs == 50
\* useState(0.1) for dropoutRate, on the grid of Scale.
DefaultDropout == 1
\* bestLossRef.current = Infinity.
Infinity == Scale * Scale * Scale * Scale

NoMerges == [isNull |-> TRUE, entries |-> << >>]

\* The switch on tokenizerType of initialize: vocab, encoded and bpeMergesRef.
tokenized(tokenizerType, text, customTokenizerSet, vocabSize) ==
    CASE tokenizerType = "bpe" ->
           [vocab |-> trainBPE(text, vocabSize).vocab,
            encoded |-> encodeBPE(text, trainBPE(text, vocabSize).merges),
            bpeMerges |-> [isNull |-> FALSE, entries |-> trainBPE(text, vocabSize).merges]]
      [] tokenizerType = "custom" ->
           [vocab |-> customVocab(customTokenizerSet, text),
            encoded |-> encodeCustom(text, customVocab(customTokenizerSet, text),
                                     tokenToIndexOf(customVocab(customTokenizerSet, text)), 0),
            bpeMerges |-> NoMerges]
      [] OTHER ->
           [vocab |-> characterVocab(text),
            encoded |-> encodeCharacter(text, tokenToIndexOf(characterVocab(text))),
            bpeMerges |-> NoMerges]

\* What initialize(textToTrain, keepParams) sets of the state in p.
initialized(p, keepParams, bpeMerges) ==
    [p EXCEPT !.modelIsLoaded = FALSE,
              !.trainingState = "IDLE",
              !.lossHistory = << >>,
              !.currentEpoch = 1,
              !.currentEpochLoss = << >>,
              !.bestLoss = Infinity,
              !.epochsWithoutImprovement = 0,
              !.fineTuningEpochsRemaining = 0,
              !.isAutoCoaching = FALSE,
              !.currentCycle = 0,
              !.bpeMerges = bpeMerges,
              !.epochs = IF keepParams THEN p.epochs ELSE p.defaultEpochs,
              !.dropoutRate = IF keepParams THEN p.dropoutRate ELSE DefaultDropout,
              !.currentLearningRate = p.learningRate,
              !.decays = 0,
              !.coachingSessions = 0]

\* The model objects one run allocates.
MaxPlayModels == 4
\* Iterations of the training loop in one run (play.steps counts them).
MaxPlaySteps == 3

\* The component as it is mounted on a tab, before initialize has run.
mounted(modelType, trainingText, tokenizerType, customTokenizerSet, vocabSize, defaultEpochs, batchSize, isCyclicalMode) ==
    [trainingState |-> "IDLE", modelType |-> modelType, trainingText |-> trainingText,
     tokenizerType |-> tokenizerType, customTokenizerSet |-> customTokenizerSet,
     vocabSize |-> vocabSize, bpeMerges |-> NoMerges, modelIsLoaded |-> FALSE,
     learningRate |-> 2, currentLearningRate |-> 2, batchSize |-> batchSize,
     dropoutRate |-> DefaultDropout, defaultEpochs |-> defaultEpochs,
     epochs |-> defaultEpochs, currentEpoch |-> 0,
     isCyclicalMode |-> isCyclicalMode, currentCycle |-> 0, numCycles |-> 1,
     cycleEpochs |-> 1, isAutoCoaching |-> FALSE,
     currentEpochLoss |-> << >>, lossHistory |-> << >>, bestLoss |-> Infinity,
     epochsWithoutImprovement |-> 0, fineTuningEpochsRemaining |-> 0,
     decays |-> 0, coachingSessions |-> 0, coached |-> 0,
     steps |-> 0, maxSteps |-> MaxPlaySteps, maxModels |-> MaxPlayModels,
     maxCoached |-> MaxPlayModels]

\* The custom tokenizer of initialize on its own: texts and user token lists.
MaxTextLen == 3
MaxCustomTokens == 2
CustomChars == { "a", "b", "c" }
CustomTokens == { << "a" >>, << "b" >>, << "a", "b" >>, << "b", "c" >> }

InitCustom ==
    /\ heap = << >>
    /\ modelRef = 0
    /\ encodedText = << >>
    /\ currentStep = 0
    /\ \E n \in 0..MaxTextLen, m \in 0..MaxCustomTokens :
          \E text \in [1..n -> CustomChars], set \in [1..m -> CustomTokens] :
             res = [kind |-> "text", text |-> text, customTokenizerSet |-> set]
    /\ gen = GenIdle
    /\ split = SplitIdle
    /\ play = NoPlay

\* case 'custom' of initialize.
CustomCall ==
    /\ res.kind = "text"
    /\ LET out == tokenized("custom", res.text, res.customTokenizerSet, ByteValues)
       IN  res' = [kind |-> "custom", text |-> res.text,
                   customTokenizerSet |-> res.customTokenizerSet,
                   vocab |-> out.vocab, encoded |-> out.encoded]
    /\ UNCHANGED << heap, modelRef, encodedText, currentStep, gen, split, play >>

NextCustom == CustomCall
SpecCustom == InitCustom /\ [][NextCustom]_vars

\* Inputs of a run: the texts, the user's custom tokens, and the model objects
\* one run allocates.
PlayTexts == { << "a", "b" >>, << "a", "b", "c" >> }
PlaySets == { << >>, << << "a", "b" >> >> }
PlayTypes == {"FFNN", "GRU"}
MaxMerges == 1
MaxEpochs == 1

PlayConfigs ==
    { mounted(type, text, tokenizerType, set, ByteValues + merges, epochs, batchSize, cyc) :
        type \in PlayTypes, text \in PlayTexts,
        tokenizerType \in {"character", "custom", "bpe"}, set \in PlaySets,
        merges \in 0..MaxMerges, epochs \in 1..MaxEpochs, batchSize \in 1..MaxWindow,
        cyc \in BOOLEAN }

\* The effect on [modelType] runs initialize() when the component mounts.
InitPlay ==
    /\ \E p \in PlayConfigs :
          /\ p.tokenizerType = "custom" \/ p.customTokenizerSet = << >>
          /\ p.tokenizerType = "bpe" \/ p.vocabSize = ByteValues
          /\ heap = << initializeModel(p.modelType,
                          tokenized(p.tokenizerType, p.trainingText, p.customTokenizerSet,
                                    p.vocabSize).vocab, HiddenSize, 1) >>
          /\ encodedText = tokenized(p.tokenizerType, p.trainingText, p.customTokenizerSet,
                                     p.vocabSize).encoded
          /\ play = initialized(p, FALSE,
                        tokenized(p.tokenizerType, p.trainingText, p.customTokenizerSet,
                                  p.vocabSize).bpeMerges)
    /\ modelRef = 1
    /\ currentStep = 0
    /\ res = NoResult
    /\ gen = GenIdle
    /\ split = SplitIdle

\* handleStart: initialize(trainingText, true) from IDLE without a loaded model,
\* more epochs after FINISHED, the cycle settings in cyclical mode, then RUNNING.
started(p) ==
    [p EXCEPT !.epochs = IF p.isCyclicalMode THEN p.numCycles * p.cycleEpochs ELSE p.epochs,
              !.currentCycle = IF p.isCyclicalMode THEN 1 ELSE p.currentCycle,
              !.trainingState = "RUNNING"]

continued(p) ==
    [p EXCEPT !.epochs = p.epochs + ContinueEpochs,
              !.epochsWithoutImprovement = 0,
              !.fineTuningEpochsRemaining = 0,
              !.bestLoss = IF Len(p.lossHistory) > 0
                           THEN CHOOSE l \in {p.lossHistory[i] : i \in 1..Len(p.lossHistory)} :
                                   \A i \in 1..Len(p.lossHistory) : l <= p.lossHistory[i]
                           ELSE p.bestLoss]

\* The main button of Controls calls onStart unless the state is RUNNING, and is
\* disabled while coaching.
canStart(p) == p.trainingState \notin {"RUNNING", "COACHING"} /\ ~p.isAutoCoaching

\* It calls onPause when the state is RUNNING.
canPause(p) == p.trainingState = "RUNNING" /\ ~p.isAutoCoaching

\* The Load button is disabled while running, paused or coaching.
canLoad(p) == p.trainingState \notin {"RUNNING", "PAUSED", "COACHING"} /\ ~p.isAutoCoaching

handleStart ==
    /\ canStart(play)
    /\ IF play.trainingState = "IDLE" /\ ~play.modelIsLoaded
       THEN /\ Len(heap) < play.maxModels
            /\ heap' = Append(heap, initializeModel(play.modelType,
                           tokenized(play.tokenizerType, play.trainingText,
                                     play.customTokenizerSet, play.vocabSize).vocab,
                           HiddenSize, 1))
            /\ modelRef' = Len(heap) + 1
            /\ encodedText' = tokenized(play.tokenizerType, play.trainingText,
                                        play.customTokenizerSet, play.vocabSize).encoded
            /\ currentStep' = 0
            /\ play' = started(initialized(play, TRUE,
                           tokenized(play.tokenizerType, play.trainingText,
                                     play.customTokenizerSet, play.vocabSize).bpeMerges))
       ELSE /\ play' = started(IF play.trainingState = "FINISHED" /\ ~play.isCyclicalMode
                               THEN continued(play) ELSE play)
            /\ UNCHANGED << heap, modelRef, encodedText, currentStep >>
    /\ UNCHANGED << res, gen, split >>

\* handlePause.
handlePause ==
    /\ canPause(play)
    /\ play' = [play EXCEPT !.trainingState = "PAUSED"]
    /\ UNCHANGED << heap, modelRef, encodedText, currentStep, res, gen, split >>

\* The average of the losses of the epoch's steps.
RECURSIVE lossSum(_, _)
lossSum(losses, n) == IF n = 0 THEN 0 ELSE lossSum(losses, n - 1) + losses[n]
epochLossOf(losses) == RoundDiv(lossSum(losses, Len(losses)), Len(losses))

\* The end of an epoch in trainingLoop, for the epoch loss l: the state and the
\* cursor it leaves.  keep tells that the loop returned before "Prepare for the
\* next epoch".
epochEnd(p, l) ==
    LET nextEpoch == p.currentEpoch + 1
        improved == l < p.bestLoss
        without == IF improved THEN 0 ELSE p.epochsWithoutImprovement + 1
        q == [p EXCEPT !.lossHistory = Append(p.lossHistory, l),
                       !.bestLoss = IF improved THEN l ELSE p.bestLoss,
                       !.epochsWithoutImprovement = without]
        next == [q EXCEPT !.currentEpochLoss = << >>, !.currentEpoch = nextEpoch]
    IN  IF /\ p.isCyclicalMode /\ p.trainingState = "RUNNING"
           /\ nextEpoch > p.currentCycle * p.cycleEpochs /\ p.currentCycle <= p.numCycles
        THEN [keep |-> FALSE,
              play |-> [p EXCEPT !.lossHistory = Append(p.lossHistory, l),
                                 !.trainingState = "COACHING",
                                 !.isAutoCoaching = TRUE,
                                 !.coachingSessions = p.coachingSessions + 1,
                                 !.currentEpoch = nextEpoch,
                                 !.currentEpochLoss = << >>]]
        ELSE IF p.trainingState = "RUNNING" /\ without >= EARLY_STOPPING_PATIENCE
        THEN [keep |-> FALSE,
              play |-> [next EXCEPT !.trainingState = "STABILIZED",
                                    !.fineTuningEpochsRemaining = FineTuningEpochs]]
        ELSE IF /\ p.trainingState \in {"STABILIZED", "FINE_TUNING"}
                /\ p.fineTuningEpochsRemaining > 0
        THEN [keep |-> FALSE,
              play |-> [next EXCEPT !.trainingState = "FINE_TUNING",
                                    !.currentLearningRate =
                                        Mul(p.currentLearningRate, decayFactor),
                                    !.decays = p.decays + 1,
                                    !.fineTuningEpochsRemaining =
                                        p.fineTuningEpochsRemaining - 1]]
        ELSE IF \/ nextEpoch > p.epochs
                \/ p.fineTuningEpochsRemaining <= 0 /\ p.trainingState = "FINE_TUNING"
        THEN [keep |-> TRUE,
              play |-> [q EXCEPT !.trainingState = "FINISHED", !.isCyclicalMode = FALSE]]
        ELSE [keep |-> FALSE, play |-> next]

\* trainingLoop for the result r of its runTrainingStep.
looped(r, dropoutRate, draws) ==
    /\ heap' = r.heap
    /\ modelRef' = r.updatedModel
    /\ res' = [kind |-> "train", model |-> modelRef, before |-> heap,
               step |-> currentStep, batchSize |-> play.batchSize,
               learningRate |-> play.currentLearningRate,
               dropoutRate |-> dropoutRate, draws |-> draws, out |-> r,
               encodedText |-> encodedText]
    /\ IF currentStep + play.batchSize >= Len(encodedText) - 1
       THEN LET e == epochEnd([play EXCEPT !.currentEpochLoss = Append(@, r.loss),
                                           !.steps = @ + 1],
                              epochLossOf(Append(play.currentEpochLoss, r.loss)))
            IN  /\ play' = e.play
                /\ currentStep' = IF e.keep THEN currentStep + play.batchSize ELSE 0
       ELSE /\ play' = [play EXCEPT !.currentEpochLoss = Append(@, r.loss),
                                   !.steps = @ + 1]
            /\ currentStep' = currentStep + play.batchSize

trainingLoop ==
    /\ play.trainingState \in {"RUNNING", "FINE_TUNING", "STABILIZED"}
    /\ Len(heap) < play.maxModels
    /\ play.steps < play.maxSteps
    /\ LET dropoutRate == IF play.modelType = "FFNN" THEN 0 ELSE play.dropoutRate
           draws == IF dropoutRate = 0 THEN NoDrops(MaxWindow)
                    ELSE drawsOf(currentStep, MaxWindow)
       IN  looped(trainStep(heap, modelRef, encodedText, currentStep, play.batchSize,
                            play.currentLearningRate, dropoutRate, draws),
                  dropoutRate, draws)
    /\ UNCHANGED << encodedText, gen, split >>

\* The timeout that ends a coaching session.
coachingTimeout ==
    /\ play.trainingState = "COACHING"
    /\ play' = IF play.currentCycle < play.numCycles
               THEN [play EXCEPT !.isAutoCoaching = FALSE,
                                 !.currentCycle = play.currentCycle + 1,
                                 !.trainingState = "RUNNING"]
               ELSE [play EXCEPT !.isAutoCoaching = FALSE,
                                 !.trainingState = "FINISHED",
                                 !.isCyclicalMode = FALSE]
    /\ UNCHANGED << heap, modelRef, encodedText, currentStep, res, gen, split >>

\* for (let i = 0; i < 5; i++) in handleReinforcement.
ReinforceIterations == 5

\* "Encode the reinforcement text using the current tokenizer."
encodedReinforcementText(p, model, text) ==
    CASE p.tokenizerType = "bpe" ->
           IF p.bpeMerges.isNull THEN << >> ELSE encodeBPE(text, p.bpeMerges.entries)
      [] p.tokenizerType = "custom" ->
           encodeCustom(text, model.vocab, model.tokenToIndex, 0)
      [] OTHER ->
           SelectSeq(encodeCharacter(text, model.tokenToIndex), LAMBDA id : id # NoId)

\* One call of the mini-training loop on the model the call before returned.
reinforceStep(r, encoded, j, draws, learningRate, dropoutRate) ==
    trainStep(r.heap, r.updatedModel, encoded, j, 1, Mul(learningRate, Scale \div 2),
              dropoutRate, draws)

\* The n-th and later calls of the mini-training loop, each on the result `next` of
\* the call before; r.updatedModel is the last model returned.  A call that throws
\* ends the handler.
RECURSIVE reinforce(_, _, _, _, _, _)
reinforce(r, encoded, n, modelType, learningRate, dropoutRate) ==
    IF n >= ReinforceIterations * (Len(encoded) - 1) \/ r.threw THEN r
    ELSE CHOOSE last \in
            { reinforce(next, encoded, n + 1, modelType, learningRate, dropoutRate) :
                next \in
                   { IF modelType = "FFNN" \/ dropoutRate = 0
                     THEN reinforceStep(r, encoded, n % (Len(encoded) - 1), NoDrops(1),
                                        learningRate, 0)
                     ELSE reinforceStep(r, encoded, n % (Len(encoded) - 1),
                                        drawsOf(n, 1), learningRate, dropoutRate) } } : TRUE

\* handleReinforcement(text): of the models the loop allocates the last one is
\* kept in modelRef.
handleReinforcement(encoded) ==
    IF Len(encoded) <= 1
    THEN UNCHANGED << heap, modelRef, res >>
    ELSE \E r \in { reinforce([heap |-> heap, updatedModel |-> modelRef, threw |-> FALSE],
                              encoded, 0, play.modelType, play.currentLearningRate,
                              play.dropoutRate) } :
            IF r.threw
            THEN UNCHANGED << heap, modelRef, res >>
            ELSE /\ heap' = Append(heap, r.heap[r.updatedModel])
                 /\ modelRef' = Len(heap) + 1
                 /\ res' = [kind |-> "reinforce", model |-> modelRef, before |-> heap,
                            encodedText |-> encoded]

\* Words generateOneWord returns and isGoodWord accepts.
CoachWords == { word \in { << "a", "b" >>, << "c", "a" >>, << "a", "a" >> } : isGoodWord(word) }

\* autoCoachLoop on a good word.
autoCoachLoop ==
    /\ play.isAutoCoaching
    /\ Len(heap) < play.maxModels
    /\ play.coached < play.maxCoached
    /\ \E word \in CoachWords :
          handleReinforcement(encodedReinforcementText(play, heap[modelRef], word))
    /\ play' = [play EXCEPT !.coached = @ + 1]
    /\ UNCHANGED << encodedText, currentStep, gen, split >>

\* The file handleSaveModel wrote in a session on `text`.
savedFile(modelType, text, tokenizerType, customTokenizerSet, vocabSize) ==
    [model |-> loadedModel(modelType,
                   tokenized(tokenizerType, text, customTokenizerSet, vocabSize).vocab,
                   HiddenSize, 1),
     modelType |-> modelType,
     tokenizerInfo |->
        [type |-> tokenizerType,
         bpeMerges |-> tokenized(tokenizerType, text, customTokenizerSet, vocabSize).bpeMerges,
         customSet |-> IF tokenizerType = "custom" THEN customTokenizerSet ELSE << >>]]

SavedFiles ==
    { savedFile(type, << "a", "b" >>, tokenizerType,
                IF tokenizerType = "custom" THEN << << "a", "b" >> >> ELSE << >>,
                ByteValues) :
        type \in PlayTypes, tokenizerType \in {"character", "custom", "bpe"} }

\* handleLoadModel on a file of the tab's model type.
handleLoadModel ==
    /\ canLoad(play)
    /\ Len(heap) < play.maxModels
    /\ \E data \in SavedFiles :
          /\ data.modelType = play.modelType
          /\ heap' = Append(heap, data.model)
          /\ modelRef' = Len(heap) + 1
          /\ encodedText' =
                IF data.tokenizerInfo.type = "bpe" /\ ~data.tokenizerInfo.bpeMerges.isNull
                THEN encodeBPE(play.trainingText, data.tokenizerInfo.bpeMerges.entries)
                ELSE IF data.tokenizerInfo.type = "custom"
                        /\ data.tokenizerInfo.customSet # << >>
                THEN encodeCustom(play.trainingText, data.model.vocab,
                                  data.model.tokenToIndex, 0)
                ELSE encodedText
          /\ play' = [play EXCEPT
                !.tokenizerType = data.tokenizerInfo.type,
                !.bpeMerges = IF data.tokenizerInfo.type = "bpe"
                                 /\ ~data.tokenizerInfo.bpeMerges.isNull
                              THEN data.tokenizerInfo.bpeMerges ELSE play.bpeMerges,
                !.customTokenizerSet = IF data.tokenizerInfo.type = "custom"
                                          /\ data.tokenizerInfo.customSet # << >>
                                       THEN data.tokenizerInfo.customSet
                                       ELSE play.customTokenizerSet,
                !.modelIsLoaded = TRUE,
                !.trainingState = "IDLE",
                !.lossHistory = << >>,
                !.currentEpoch = 1]
    /\ UNCHANGED << currentStep, res, gen, split >>

NextPlay ==
    \/ handleStart
    \/ handlePause
    \/ trainingLoop
    \/ coachingTimeout
    \/ autoCoachLoop
    \/ handleLoadModel

SpecPlay == InitPlay /\ [][NextPlay]_vars


(***************************************************************************)
(* Claims: the Playground                                                  *)
(***************************************************************************)
\* C18: for every model the Playground holds, made by an initializer from the
\* vocabulary of the character, custom or BPE tokenizer and trained since,
\* tokenToIndex is the inverse of vocab: tokenToIndex[vocab[i]] = i for every index i.
C18_TokenToIndexInvertsVocab ==
    \A a \in 1..Len(heap) :
        \A i \in 1..Len(heap[a].vocab) :
            heap[a].tokenToIndex[heap[a].vocab[i]] = i - 1


\* C19: every call the training loop makes to a training-step function on a corpus
\* of at least two tokens passes a cursor in [0, encodedCorpus.length - 1), whatever
\* sequence of start, pause, resume, epoch rollover, coaching, finish and continue
\* came before.
C19_CursorInsideCorpus ==
    (res.kind = "train" /\ Len(res.encodedText) >= 2)
        => res.step \in 0..(Len(res.encodedText) - 2)


\* C20: whenever the orchestrator calls a training step, every ID of the encoded
\* corpus is a valid index into the vocabulary of the model the step is given, also
\* after a saved model of any tokenizer type has been loaded.
C20_CorpusIdsAreVocabIndices ==
    res.kind = "train"
        => \A i \in 1..Len(res.encodedText) :
              \E id \in 0..(Len(res.before[res.model].vocab) - 1) :
                  res.encodedText[i] = id


(***************************************************************************)
(* The Playground's callbacks as the browser runs them.  Every callback is *)
(* one task: a click handler, an animation frame running trainingLoop, a   *)
(* setTimeout callback, the FileReader's onload, or React's flush of the   *)
(* passive effects of the last commit.  The state a callback sets with     *)
(* setState is committed at the end of its task; the effects of a commit   *)
(* whose dependencies changed stay pending until React flushes them, which *)
(* it does before the next commit at the latest and, for a click, at once. *)
(* play holds the component's state and refs, res the browser's pending    *)
(* callbacks, heap the model objects: a model is the record of the model   *)
(* it was computed from and of the function that made it.  A pending frame *)
(* is the closure trainingLoop was when the frame was requested; `current` *)
(* tells whether its id is the one in loopIdRef.  lossHistory stands for   *)
(* its length and currentLearningRate for the number of decays since       *)
(* initialize.  steps, steppedIn and wordWhileOff are not in the source:   *)
(* they record the steps the loop made, the trainingState the last of them *)
(* was made in, and whether a word was generated while isAutoCoaching was  *)
(* false; so are toggles, the clicks on the auto-coach switch, and         *)
(* plateau, which tells whether the losses of the run stop improving after *)
(* the first epoch.                                                        *)
(***************************************************************************)
SchedActive == {"RUNNING", "FINE_TUNING", "STABILIZED"}
SchedCycles == 2
SchedCycleEpochs == 1
MaxSchedSteps == 7
MaxToggles == 3
MaxCoachings == 1
MaxLoads == 1
MaxStarts == 1

NoModel == 0

mountedComponent(isCyclicalMode, epochs, plateau) ==
    [trainingState |-> "IDLE", isAutoCoaching |-> FALSE, model |-> 1, modelIsLoaded |-> FALSE,
     currentEpoch |-> 1, epochs |-> epochs, lossHistory |-> 0, currentLearningRate |-> 0,
     isCyclicalMode |-> isCyclicalMode, currentCycle |-> 0,
     trainingStateRef |-> "IDLE", isAutoCoachingRef |-> FALSE,
     isCyclicalModeRef |-> isCyclicalMode, currentCycleRef |-> 0,
     bestLossIsInfinity |-> TRUE, epochsWithoutImprovementRef |-> 0,
     fineTuningEpochsRemainingRef |-> 0,
     steps |-> 0, steppedIn |-> "none", wordWhileOff |-> FALSE, toggles |-> 0,
     plateau |-> plateau]

NoCallbacks ==
    [kind |-> "callbacks", frames |-> << >>, timers |-> 0, coachingTimer |-> FALSE,
     effects |-> {}, reader |-> FALSE]

\* The state a task works on, with the setState calls it has made so far.
World == [play |-> play, res |-> res, heap |-> heap, modelRef |-> modelRef,
          currentStep |-> currentStep, updates |-> << >>]

setState(w, field, value) == [w EXCEPT !.updates = Append(@, << field, "set", value >>)]
setStateFrom(w, field, delta) == [w EXCEPT !.updates = Append(@, << field, "add", delta >>)]

RECURSIVE applied(_, _)
applied(p, updates) ==
    IF updates = << >> THEN p
    ELSE applied(IF Head(updates)[2] = "set"
                 THEN [p EXCEPT ![Head(updates)[1]] = Head(updates)[3]]
                 ELSE [p EXCEPT ![Head(updates)[1]] = @ + Head(updates)[3]],
                 Tail(updates))

\* The dependencies of the effects that differ between two renders.
changedDeps(p, q) ==
    { d \in {"trainingState", "isAutoCoaching", "model", "isCyclicalMode", "currentCycle"} :
         p[d] # q[d] }
    \cup (IF \E d \in {"currentEpoch", "lossHistory", "epochs", "currentLearningRate"} :
                p[d] # q[d]
          THEN {"trainingLoop"} ELSE {})
    \cup (IF p.currentLearningRate # q.currentLearningRate THEN {"autoCoachLoop"} ELSE {})

\* The render that ends a task: the updates are committed and the effects
\* whose dependencies changed become pending.
commit(w) ==
    [w EXCEPT !.play = applied(w.play, w.updates),
              !.res.effects = changedDeps(w.play, applied(w.play, w.updates)),
              !.updates = << >>]

\* requestAnimationFrame(trainingLoop) assigned to loopIdRef.current, and
\* cancelAnimationFrame(loopIdRef.current).
requestAnimationFrame(frames, p) ==
    [k \in 1..Len(frames) |-> [frames[k] EXCEPT !.current = FALSE]]
        \o << [current |-> TRUE, currentEpoch |-> p.currentEpoch, epochs |-> p.epochs] >>

notCurrent(f) == ~f.current
cancelAnimationFrame(frames) == SelectSeq(frames, notCurrent)

\* handleReinforcement(word, false) on a word the model's vocabulary encodes.
reinforced(w) ==
    setState([w EXCEPT !.heap = Append(@, [parent |-> w.modelRef, by |-> "handleReinforcement"]),
                       !.modelRef = Len(w.heap) + 1],
             "model", Len(w.heap) + 1)

\* The body of autoCoachLoop.
autoCoachStep(w, isGood) ==
    IF ~w.play.isAutoCoachingRef THEN w
    ELSE LET generated == [w EXCEPT !.play.wordWhileOff = @ \/ ~w.play.isAutoCoaching,
                                    !.res.timers = @ + 1]
         IN  IF isGood THEN reinforced(generated) ELSE generated

\* The passive effects of the last commit: the cleanups of the effects whose
\* dependencies changed, then their bodies in the order of the source.
flushed(w, isGood) ==
    LET effects == w.res.effects
        p == w.play
        loopDeps == "trainingState" \in effects \/ "trainingLoop" \in effects
        cleaned == IF loopDeps THEN cancelAnimationFrame(w.res.frames) ELSE w.res.frames
        frames == IF ~loopDeps THEN cleaned
                  ELSE IF p.trainingState \in SchedActive
                       THEN requestAnimationFrame(cleaned, p)
                       ELSE cancelAnimationFrame(cleaned)
        coaching == "trainingState" \in effects /\ p.trainingState = "COACHING"
        refs == [p EXCEPT !.trainingStateRef = p.trainingState,
                          !.isAutoCoachingRef = p.isAutoCoaching,
                          !.isCyclicalModeRef = p.isCyclicalMode,
                          !.currentCycleRef = p.currentCycle]
        w1 == [w EXCEPT !.play = refs,
                        !.modelRef = IF "model" \in effects THEN p.model ELSE @,
                        !.res.frames = frames,
                        !.res.coachingTimer =
                            IF "trainingState" \in effects THEN coaching ELSE @,
                        !.res.effects = {}]
        w2 == IF coaching THEN setState(w1, "isAutoCoaching", TRUE) ELSE w1
    IN  IF p.isAutoCoaching /\ ("isAutoCoaching" \in effects \/ "autoCoachLoop" \in effects)
        THEN autoCoachStep(w2, isGood)
        ELSE w2

\* A task that is no discrete event: what it left to React is rendered after
\* the effects of the commit before.
rendered(w, isGood) == commit(flushed(w, isGood))

\* A click: React renders at the end of the handler and flushes the effects
\* of that commit at once; what these effects set is rendered after them.
clicked(w, isGood) == rendered(rendered(w, isGood), isGood)

\* initialize(trainingText, true).
initializeOf(w) ==
    LET made == [w EXCEPT !.heap = Append(@, [parent |-> NoModel, by |-> "initialize"]),
                          !.currentStep = 0,
                          !.play.bestLossIsInfinity = TRUE,
                          !.play.epochsWithoutImprovementRef = 0,
                          !.play.fineTuningEpochsRemainingRef = 0]
    IN  [made EXCEPT !.updates = @ \o
            << << "modelIsLoaded", "set", FALSE >>, << "trainingState", "set", "IDLE" >>,
               << "lossHistory", "set", 0 >>, << "currentEpoch", "set", 1 >>,
               << "isAutoCoaching", "set", FALSE >>, << "currentCycle", "set", 0 >>,
               << "model", "set", Len(w.heap) + 1 >>,
               << "currentLearningRate", "set", 0 >> >>]

\* handleStart.
handleStartOf(w) ==
    LET p == w.play
        w1 == IF p.trainingState = "IDLE" /\ ~p.modelIsLoaded THEN initializeOf(w)
              ELSE IF p.trainingState = "FINISHED" /\ ~p.isCyclicalMode
                   THEN setStateFrom([w EXCEPT !.play.epochsWithoutImprovementRef = 0,
                                               !.play.fineTuningEpochsRemainingRef = 0,
                                               !.play.bestLossIsInfinity =
                                                   @ /\ p.lossHistory = 0],
                                     "epochs", ContinueEpochs)
                   ELSE w
        w2 == IF p.isCyclicalMode
              THEN setState(setState(w1, "epochs", SchedCycles * SchedCycleEpochs),
                            "currentCycle", 1)
              ELSE w1
    IN  setState(w2, "trainingState", "RUNNING")

\* handleToggleAutoCoach.
handleToggleAutoCoachOf(w) ==
    LET p == w.play
        nextState == ~p.isAutoCoaching
        w1 == IF nextState /\ p.trainingStateRef = "IDLE"
              THEN setState(initializeOf(w), "trainingState", "PAUSED")
              ELSE w
        w2 == IF nextState /\ p.trainingStateRef = "RUNNING"
              THEN setState(w1, "trainingState", "PAUSED")
              ELSE w1
    IN  IF p.isCyclicalMode THEN w ELSE setState(w2, "isAutoCoaching", nextState)

\* reader.onload of handleLoadModel on a file of the current model type.
onloadOf(w) ==
    LET loaded == [w EXCEPT !.heap = Append(@, [parent |-> NoModel, by |-> "handleLoadModel"]),
                            !.res.reader = FALSE]
    IN  [loaded EXCEPT !.updates = @ \o
            << << "model", "set", Len(w.heap) + 1 >>, << "modelIsLoaded", "set", TRUE >>,
               << "trainingState", "set", "IDLE" >>, << "lossHistory", "set", 0 >>,
               << "currentEpoch", "set", 1 >> >>]

\* The callback of the coaching effect's setTimeout.
coachingTimeoutOf(w) ==
    LET off == setState([w EXCEPT !.res.coachingTimer = FALSE], "isAutoCoaching", FALSE)
    IN  IF w.play.currentCycleRef < SchedCycles
        THEN setState(setStateFrom(off, "currentCycle", 1), "trainingState", "RUNNING")
        ELSE setState(setState(off, "trainingState", "FINISHED"), "isCyclicalMode", FALSE)

\* runTrainingStep with batch size 1.
runTrainingStepOf(w) ==
    [w EXCEPT !.heap = Append(@, [parent |-> w.modelRef, by |-> "runTrainingStep"]),
              !.modelRef = Len(w.heap) + 1,
              !.currentStep = @ + 1,
              !.play.steps = @ + 1,
              !.play.steppedIn = w.play.trainingState]

\* The end of an epoch in trainingLoop, called with the closure f; improved
\* tells whether the epoch's loss is below bestLossRef.current.
epochEndOf(w, f, improved) ==
    LET p == w.play
        nextEpoch == f.currentEpoch + 1
        w0 == setState(setStateFrom(w, "lossHistory", 1), "model", w.modelRef)
        beat == improved \/ p.bestLossIsInfinity
        without == IF beat THEN 0 ELSE p.epochsWithoutImprovementRef + 1
        currentState == p.trainingStateRef
        w1 == [w0 EXCEPT !.play.epochsWithoutImprovementRef = without,
                         !.play.bestLossIsInfinity = FALSE]
        next(v) == [setState(v, "currentEpoch", nextEpoch)
                       EXCEPT !.currentStep = 0,
                              !.res.frames = requestAnimationFrame(@, f)]
    IN  IF /\ p.isCyclicalModeRef /\ currentState = "RUNNING"
           /\ nextEpoch > p.currentCycleRef * SchedCycleEpochs
           /\ p.currentCycleRef <= SchedCycles
        THEN [setState(setState(w0, "trainingState", "COACHING"), "currentEpoch", nextEpoch)
                 EXCEPT !.currentStep = 0]
        ELSE IF currentState = "RUNNING" /\ without >= EARLY_STOPPING_PATIENCE
        THEN next(setState([w1 EXCEPT !.play.fineTuningEpochsRemainingRef = FineTuningEpochs],
                           "trainingState", "STABILIZED"))
        ELSE IF /\ currentState \in {"STABILIZED", "FINE_TUNING"}
                /\ p.fineTuningEpochsRemainingRef > 0
        THEN next(setStateFrom(setState([w1 EXCEPT !.play.fineTuningEpochsRemainingRef = @ - 1],
                                        "trainingState", "FINE_TUNING"),
                               "currentLearningRate", 1))
        ELSE IF \/ nextEpoch > f.epochs
                \/ (p.fineTuningEpochsRemainingRef <= 0 /\ currentState = "FINE_TUNING")
        THEN IF p.isCyclicalModeRef
             THEN setState(setState(w1, "trainingState", "FINISHED"), "isCyclicalMode", FALSE)
             ELSE setState(w1, "trainingState", "FINISHED")
        ELSE next(w1)

\* trainingLoop as the callback of the k-th pending frame.
trainingLoopOf(w, k, improved) ==
    LET f == w.res.frames[k]
        fired == [w EXCEPT !.res.frames =
                     SubSeq(w.res.frames, 1, k - 1) \o SubSeq(w.res.frames, k + 1, Len(w.res.frames))]
    IN  IF w.play.trainingStateRef \notin SchedActive THEN fired
        ELSE IF runTrainingStepOf(fired).currentStep >= Len(encodedText) - 1
             THEN epochEndOf(runTrainingStepOf(fired), f, improved)
             ELSE [runTrainingStepOf(fired) EXCEPT
                      !.res.frames = requestAnimationFrame(@, f)]

SchedCorpora == { << 0, 1 >>, << 0, 1, 0 >> }

\* The models a function has made.
madeBy(models, f) == Cardinality({ k \in 1..Len(models) : models[k].by = f })

InitSched ==
    /\ heap = << [parent |-> NoModel, by |-> "mount"] >>
    /\ modelRef = 1
    /\ currentStep = 0
    /\ res = NoCallbacks
    /\ gen = GenIdle
    /\ split = SplitIdle
    /\ \E corpus \in SchedCorpora, isCyclicalMode \in BOOLEAN,
          epochs \in {2, MaxSchedSteps + 1}, plateau \in BOOLEAN :
          /\ isCyclicalMode => (epochs = 2 /\ ~plateau /\ Len(corpus) = 2)
          /\ plateau => (epochs > 2 /\ Len(corpus) = 2)
          /\ encodedText = corpus
          /\ play = mountedComponent(isCyclicalMode, epochs, plateau)

\* The task's outcome becomes the next state.
becomes(w) ==
    /\ play' = w.play
    /\ res' = w.res
    /\ heap' = w.heap
    /\ modelRef' = w.modelRef
    /\ currentStep' = w.currentStep
    /\ UNCHANGED << encodedText, gen, split >>

\* The words generateOneWord may return.
Goodness == IF madeBy(heap, "handleReinforcement") < MaxCoachings THEN BOOLEAN ELSE {FALSE}

clickStart ==
    /\ canStart(play)
    /\ (play.trainingState = "IDLE" /\ ~play.modelIsLoaded)
          => madeBy(heap, "initialize") < MaxStarts
    /\ \E isGood \in Goodness : \E w \in { clicked(handleStartOf(World), isGood) } : becomes(w)

clickPause ==
    /\ canPause(play)
    /\ \E isGood \in Goodness :
          \E w \in { clicked(setState(World, "trainingState", "PAUSED"), isGood) } : becomes(w)

clickToggleAutoCoach ==
    /\ play.toggles < MaxToggles
    /\ (~play.isAutoCoaching /\ play.trainingStateRef = "IDLE")
          => madeBy(heap, "initialize") < MaxStarts
    /\ \E isGood \in Goodness :
          \E w \in { clicked(handleToggleAutoCoachOf(
                                  [World EXCEPT !.play.toggles =
                                      IF play.isCyclicalMode THEN @ ELSE @ + 1]),
                              isGood) } : becomes(w)

clickLoad ==
    /\ canLoad(play)
    /\ ~res.reader
    /\ madeBy(heap, "handleLoadModel") < MaxLoads
    /\ res' = [res EXCEPT !.reader = TRUE]
    /\ UNCHANGED << heap, modelRef, encodedText, currentStep, gen, split, play >>

readerOnload ==
    /\ res.reader
    /\ \E isGood \in Goodness : \E w \in { rendered(onloadOf(World), isGood) } : becomes(w)

frameCallback ==
    /\ play.steps < MaxSchedSteps
    /\ \E k \in 1..Len(res.frames), isGood \in Goodness :
          \E w \in { rendered(trainingLoopOf(World, k, ~play.plateau), isGood) } : becomes(w)

timerCallback ==
    /\ res.timers > 0
    /\ \E isGood \in Goodness :
          \E w \in { rendered(autoCoachStep([World EXCEPT !.res.timers = @ - 1], isGood),
                              isGood) } : becomes(w)

coachingTimerCallback ==
    /\ res.coachingTimer
    /\ \E isGood \in Goodness : \E w \in { rendered(coachingTimeoutOf(World), isGood) } : becomes(w)

flushPassiveEffects ==
    /\ res.effects # {}
    /\ \E isGood \in Goodness : \E w \in { rendered(World, isGood) } : becomes(w)

NextSched ==
    \/ clickStart \/ clickPause \/ clickToggleAutoCoach \/ clickLoad \/ readerOnload
    \/ frameCallback \/ timerCallback \/ coachingTimerCallback \/ flushPassiveEffects

SpecSched == InitSched /\ [][NextSched]_vars

(***************************************************************************)
(* Claims: softmax                                                         *)
(***************************************************************************)
\* |sum - 1| a row of n rounded quotients may show: half a unit per element.
tolerance(n) == (n + 1) \div 2

isProbability(x) == isFinite(x) /\ x >= 0 /\ x <= Scale

sumsToOne(row) ==
    /\ RowSum(row, Len(row)) - Scale <= tolerance(Len(row))
    /\ Scale - RowSum(row, Len(row)) <= tolerance(Len(row))

\* The rows softmax has no distribution for: a NaN or Infinity among the logits, or
\* no logit above -Infinity.
poisoned(row) ==
    \/ \E j \in DOMAIN row : ~isFinite(row[j]) /\ row[j] \in { NaN, PositiveInfinity }
    \/ \A j \in DOMAIN row : ~isFinite(row[j])

\* Adding c changed no difference between two logits.
exactShift(row, shifted, c) == \A j \in DOMAIN row : shifted[j] = row[j] + c

MaxRunSteps == 18
MaxRunEpochs == 10
MaxCycles == 2
MaxCycleEpochs == 5
\* Words the auto-coach loop reinforces in one run.
MaxCoached == 1

RunConfigs ==
    { [mounted(type, << "a", "b" >>, "character", << >>, ByteValues, epochs, 1, cyc)
          EXCEPT !.numCycles = numCycles, !.cycleEpochs = cycleEpochs,
                 !.maxSteps = MaxRunSteps, !.maxModels = MaxRunSteps + MaxCoached + 2,
                 !.maxCoached = MaxCoached] :
        type \in {"FFNN", "RNN"},
        epochs \in { MaxRunEpochs \div 2, MaxRunEpochs }, cyc \in BOOLEAN,
        numCycles \in 1..MaxCycles, cycleEpochs \in { 1, MaxCycleEpochs } }

InitRun ==
    /\ \E p \in RunConfigs :
          /\ p.isCyclicalMode \/ (p.numCycles = 1 /\ p.cycleEpochs = 1)
          /\ ~p.isCyclicalMode \/ p.epochs = MaxRunEpochs
          /\ heap = << initializeModel(p.modelType, characterVocab(p.trainingText),
                                       HiddenSize, 1) >>
          /\ encodedText = encodeCharacter(p.trainingText,
                                           tokenToIndexOf(characterVocab(p.trainingText)))
          /\ play = initialized(p, FALSE, NoMerges)
    /\ modelRef = 1
    /\ currentStep = 0
    /\ res = NoResult
    /\ gen = GenIdle
    /\ split = SplitIdle

NextRun ==
    \/ handleStart
    \/ handlePause
    \/ trainingLoop
    \/ coachingTimeout
    \/ autoCoachLoop

SpecRun == InitRun /\ [][NextRun]_vars


(***************************************************************************)
(* Claims: long runs                                                       *)
(***************************************************************************)
\* decayFactor is FINAL_LR_MULTIPLIER to the power 1/5: currentLearningRate is at
\* least FINAL_LR_MULTIPLIER times learningRate as long as it was multiplied by
\* decayFactor at most five times, and equal to it after exactly five.
aboveFloor(p) == p.decays <= FineTuningEpochs
atFloor(p) == p.decays = FineTuningEpochs

\* C22: the current learning rate never falls below FINAL_LR_MULTIPLIER times the
\* configured learning rate, also across Continue Training and the main button
\* pressed during fine-tuning, and it equals that floor when a fine-tuning phase
\* completes.
C22_LearningRateFloor ==
    /\ [](play.trainingState # "UNMOUNTED" => aboveFloor(play))
    /\ [][(play.trainingState = "FINE_TUNING" /\ play'.trainingState = "FINISHED")
             => atFloor(play')]_vars


\* The loss of epoch i of the history h did not beat the best loss before it.
failedToBeat(h, i) == \E j \in 1..(i - 1) : h[j] <= h[i]

\* The last n epochs of h all failed to beat the best loss before them.
lastFailed(h, n) ==
    /\ Len(h) > n
    /\ \A i \in (Len(h) - n + 1)..Len(h) : failedToBeat(h, i)

\* The step is an iteration of the training loop.
loopStep == play'.steps = play.steps + 1

\* C23: the state becomes STABILIZED only from RUNNING, at an epoch end at which
\* the last EARLY_STOPPING_PATIENCE epochs, this one included, all failed to beat
\* the best loss; from STABILIZED the training loop goes on to FINE_TUNING, and from
\* FINE_TUNING it stays there, with fewer fine-tuning epochs remaining, or ends in
\* FINISHED.
C23_StabilizedAfterPatience ==
    [][/\ (play.trainingState # "STABILIZED" /\ play'.trainingState = "STABILIZED")
            => /\ loopStep
               /\ play.trainingState = "RUNNING"
               /\ Len(play'.lossHistory) = Len(play.lossHistory) + 1
               /\ lastFailed(play'.lossHistory, EARLY_STOPPING_PATIENCE)
       /\ (loopStep /\ play.trainingState = "STABILIZED")
            => /\ play'.trainingState = "FINE_TUNING"
               /\ play'.fineTuningEpochsRemaining = FineTuningEpochs - 1
       /\ (loopStep /\ play.trainingState = "FINE_TUNING")
            => \/ /\ play'.trainingState = "FINE_TUNING"
                  /\ play'.fineTuningEpochsRemaining = play.fineTuningEpochsRemaining - 1
               \/ /\ play'.trainingState = "FINISHED"
                  /\ play.fineTuningEpochsRemaining = 0
      ]_vars


\* C24: in cyclical mode a coaching session starts exactly when currentCycle times
\* cycleEpochs epochs are completed, and the run has had exactly numCycles coaching
\* sessions when the state becomes FINISHED.
C24_CyclesThenFinished ==
    [][/\ (play.trainingState # "COACHING" /\ play'.trainingState = "COACHING")
            => play'.currentEpoch - 1 = play.currentCycle * play.cycleEpochs
       /\ (play.isCyclicalMode /\ play.trainingState # "FINISHED"
             /\ play'.trainingState = "FINISHED")
            => play'.coachingSessions = play.numCycles
      ]_vars


\* The run has not been in cyclical mode since initialize.
neverCyclical(p) == ~p.isCyclicalMode /\ p.currentCycle = 0

\* C28: a run in non-cyclical mode is FINISHED no later than the end of epoch
\* number `epochs`: the loop is never in an epoch beyond `epochs`, and the epoch
\* at whose end the state becomes FINISHED is none beyond it.
C28_FinishedByMaxEpochs ==
    (play.trainingState \in {"RUNNING", "STABILIZED", "FINE_TUNING", "FINISHED"}
        /\ neverCyclical(play))
            => play.currentEpoch <= play.epochs


\* ---------------------------------------------------------------------------
\* Claims: the Good Word validator.
\* ---------------------------------------------------------------------------
\* The maximal runs of three or more consecutive consonants of a word.
longRuns(word) ==
    { SubSeq(word, ij[1], ij[2]) : ij \in
        { ij \in (1..Len(word)) \X (1..Len(word)) :
            /\ ij[2] - ij[1] >= 2
            /\ \A k \in ij[1]..ij[2] : isConsonant(word[k])
            /\ ij[1] = 1 \/ ~isConsonant(word[ij[1] - 1])
            /\ ij[2] = Len(word) \/ ~isConsonant(word[ij[2] + 1]) } }

\* C25: isGoodWord returns false for every word with a run of three or more
\* consecutive consonants that is not itself a valid cluster (one of the onsets
\* and codas), such as "abfra" with its run "bfr"; a word whose only long run
\* is "str" is not rejected by the consonant-cluster rule.
C25_InvalidClusterRejected ==
    res.kind = "isGoodWord" =>
        /\ (\E run \in longRuns(res.word) : run \notin CONSONANT_CLUSTERS) => ~res.out
        /\ longRuns(res.word) = { << "s", "t", "r" >> } => validClusters(res.word)


\* ---------------------------------------------------------------------------
\* Claims: the custom tokenizer.
\* ---------------------------------------------------------------------------
\* The tokens the ids of an encoding stand for, one after the other.
tokensOf(vocab, encoded) == [k \in 1..Len(encoded) |-> vocab[encoded[k] + 1]]

\* C27: with the vocabulary initialize builds for the custom tokenizer,
\* encodeCustom finds a token at every position of the training text: no
\* character is skipped, and the encoded tokens concatenated are the text.
C27_CustomEncodingCoversText ==
    res.kind = "custom" => Flatten(tokensOf(res.vocab, res.encoded)) = res.text


(***************************************************************************)
(* Claims: the callbacks of the Playground                                 *)
(***************************************************************************)
\* C26: the animation-frame loop performs a training step only while the
\* training state is RUNNING, STABILIZED or FINE_TUNING: the state the
\* component is in when the loop makes a step is one of the three.
C26_StepsOnlyWhileActive ==
    res.kind = "callbacks" => play.steppedIn \in SchedActive \cup {"none"}

\* The functions that compute a model from the model in modelRef.
StepFunctions == {"runTrainingStep", "handleReinforcement"}

\* C29: no model update is lost: a training or reinforcement step that follows
\* another one starts from the model that one returned.
C29_NoUpdateLost ==
    res.kind = "callbacks" =>
        \A k \in 2..Len(heap) :
            (heap[k].by \in StepFunctions /\ heap[k - 1].by \in StepFunctions)
                => heap[k].parent = k - 1

\* C30: at most one auto-coach timer chain is pending at any time, and no word
\* is generated by the auto-coach while auto-coaching is switched off.
C30_OneAutoCoachChain ==
    res.kind = "callbacks" => (res.timers <= 1 /\ ~play.wordWhileOff)

=============================================================================
